---------------------------- MODULE Spec2Model ----------------------------
(***************************************************************************)
(* Scheduling and orchestration engine of the laboratory automation        *)
(* platform (app/backend/src/laf/core): capability matcher, service        *)
(* registry, task scheduler and workflow execution engine.                 *)
(*                                                                         *)
(* Reading of the source.  In core/ the unqualified name Service stands    *)
(* for the service table the modules import as ServiceV2 (the queries are  *)
(* written db.query(ServiceV2).filter(Service.id == ...)); it is modelled  *)
(* as that table.  Rows of a table are returned in primary-key order,      *)
(* except that .first() on a query without ORDER BY may return any         *)
(* matching row.  created_at of a queue entry is strictly increasing in    *)
(* the order of creation, so it is modelled by the entry's id.             *)
(*                                                                         *)
(* A step of the model is the code between two suspension points of the    *)
(* asyncio program (an awaited HTTP exchange with a service) or a whole    *)
(* request handler when it has none.                                       *)
(***************************************************************************)
EXTENDS Integers, Sequences, FiniteSets, TLC

VARIABLES
    workflows,   \* Workflow table: id -> [status]
    tasks,       \* Task table: id -> [workflow_id, name, status, deadline]
    deps,        \* TaskDependency table: set of [workflow_id, dependent_task_id, prerequisite_task_id]
    services,    \* ServiceV2 table: id -> [status, current_load, max_concurrent_tasks, capabilities]
    queue,       \* WorkflowExecutionQueue table: sequence of entries, index = id
    results,     \* Result table: set of task ids that have a Result row
    execs,       \* execute_workflow_optimized calls: executor -> record
    levelsOut,   \* the dict group_tasks_by_dependency_level returned last (<<>> before)
    scheduleOut, \* the ScheduleResult the last schedule request returned (<<>> before)
    round_robin_counters, \* ServiceRegistry._round_robin_counters: set of candidate ids -> counter
    selections,  \* the load_balance_selection calls made so far: sequence of [services, returned]
    identity_map, \* the ServiceV2 rows each caller's Session holds loaded: caller -> id -> row (<<>>: none)
    matchOut,    \* the MatchScore _calculate_match_score returned last, with its arguments (<<>> before)
    batch,       \* the batch_execute_workflows call: its arguments, coroutines and BatchResult
    preferences, \* the UserServicePreference row of the user (exists FALSE: no row)
    celery,      \* the Celery broker's messages and the tasks a worker is executing
    elapsed_time \* of executor 1, per task: the polls counted while it monitors the
                 \* call of the assigned service and the call of the alternate one

\* The state of the ServiceRegistry and CapabilityMatcher objects and of
\* their callers, beside the tables.
objectVars == <<round_robin_counters, selections, identity_map, matchOut, batch,
                preferences, celery, elapsed_time>>

vars == <<workflows, tasks, deps, services, queue, results, execs, levelsOut, scheduleOut,
          objectVars>>


(***************************************************************************)
(* Bounds of the model.                                                    *)
(***************************************************************************)
NumTasks == 3        \* task ids 1..NumTasks
NumServices == 2     \* service ids 1..NumServices
NumExecutors == 2    \* concurrent (or successive) ExecuteWorkflow calls
MaxQueue == 6        \* no further scheduling once the queue holds this many entries

TaskIds == 1..NumTasks
ServiceIds == 1..NumServices
Executors == 1..NumExecutors

(***************************************************************************)
(* Program constants.                                                      *)
(***************************************************************************)
DefaultPriority == 5          \* getattr(task, 'priority', 5)
DefaultDurationSeconds == 3600
SjfBucketSeconds == 600
EngineMaxRetries == 3         \* WorkflowEngine.max_retries
TopCandidates == 5            \* compatible_services[:5]

ServiceStatus == {"online", "offline", "busy", "maintenance", "error"}
QueueStatus == {"pending", "assigned", "running", "completed", "failed", "cancelled"}
NonTerminal == {"pending", "assigned", "running"}
ExecutionMode == {"sequential", "parallel", "optimized"}
RecoveryStrategy == {"fail_fast", "continue", "retry", "fallback"}
SchedulingStrategy == {"priority", "sjf", "deadline"}

(***************************************************************************)
(* Small helpers on sets and sequences.                                    *)
(***************************************************************************)
Max(S) == CHOOSE x \in S : \A y \in S : y <= x
Min(S) == CHOOSE x \in S : \A y \in S : x <= y

RECURSIVE SortedSeq(_)
\* The elements of a finite set of integers in increasing order
\* (a query result ordered by id, or by order_index).
SortedSeq(S) ==
    IF S = {} THEN <<>>
    ELSE LET m == Min(S) IN <<m>> \o SortedSeq(S \ {m})

Range(s) == {s[i] : i \in 1..Len(s)}

\* A local variable: F applied to the value of v, which is computed once.
Let(v, F(_)) == CHOOSE r \in {F(x) : x \in {v}} : TRUE

RECURSIVE SumOver(_, _)
SumOver(S, f) ==
    IF S = {} THEN 0
    ELSE LET x == CHOOSE y \in S : TRUE IN f[x] + SumOver(S \ {x}, f)

(***************************************************************************)
(* Capability matcher (core/capability_matcher.py).                        *)
(***************************************************************************)
\* capability_weights, times ten; .get(cap, 0.5) for the others.
capability_weights(cap) ==
    CASE cap \in {"hplc", "gc", "ms", "balance"} -> 10
      [] cap = "pipette" -> 9
      [] cap \in {"uv_detector", "fluorescence_detector", "filtration", "ph_measurement"} -> 8
      [] cap \in {"autosampler", "centrifuge", "heating", "cooling"} -> 7
      [] cap \in {"column_oven", "vortex", "temperature_control"} -> 6
      [] cap \in {"data_processing", "pressure_monitoring"} -> 5
      [] cap = "barcode_reading" -> 4
      [] OTHER -> 5

\* An inference that finds no requirement in any task name.
infer_task_requirementsNone(name) == [required |-> {}, optional |-> {}]

\* infer_task_requirements: a task name is modelled by the set of keywords
\* that occur in its lower-cased text.
infer_task_requirements(name) ==
    IF "hplc" \in name
    THEN [required |-> {"hplc", "uv_detector"}, optional |-> {"autosampler", "column_oven"}]
    ELSE IF "sample" \in name /\ "prep" \in name
    THEN [required |-> {"balance", "pipette"}, optional |-> {"ph_measurement", "heating", "cooling"}]
    ELSE IF "balance" \in name \/ "weigh" \in name
    THEN [required |-> {"balance"}, optional |-> {}]
    ELSE [required |-> {}, optional |-> {}]

\* A quality for which an empty set of required capabilities has the rate 0.0.
determine_match_qualityEmptyZero(rm, rn, om, on) ==
    IF rn = 0 \/ 5 * rm < 4 * rn THEN "incompatible"
    ELSE IF rm < rn THEN "poor"
    ELSE IF on = 0 \/ om = on THEN "perfect"
    ELSE "adequate"

\* determine_match_quality, on the rates rm/rn and om/on (0/0 stands for 1.0).
determine_match_quality(rm, rn, om, on) ==
    IF rn > 0 /\ 5 * rm < 4 * rn THEN "incompatible"
    ELSE IF rn > 0 /\ rm < rn THEN "poor"
    ELSE IF on = 0 \/ om = on THEN "perfect"
    ELSE IF 5 * om >= 4 * on THEN "excellent"
    ELSE IF 2 * om >= on THEN "good"
    ELSE "adequate"

\* calculate_match_score: quality, and the score as a numerator over a
\* denominator that depends on the requirements only (5 * rn * on * total weight),
\* so that the scores of two services for one task compare by the numerators.
calculate_match_score(caps, req) ==
    LET rcaps == req.required
        ocaps == req.optional
        rm == Cardinality(rcaps \cap caps)
        rn == Cardinality(rcaps)
        om == Cardinality(ocaps \cap caps)
        on == Cardinality(ocaps)
        rmE == IF rn = 0 THEN 1 ELSE rm
        rnE == IF rn = 0 THEN 1 ELSE rn
        omE == IF on = 0 THEN 1 ELSE om
        onE == IF on = 0 THEN 1 ELSE on
        tcaps == rcaps \cup ocaps
        w == [c \in tcaps |-> capability_weights(c)]
        matched == IF tcaps = {} THEN 1 ELSE SumOver(tcaps \cap caps, w)
    IN  [quality |-> determine_match_quality(rm, rn, om, on),
         score |-> (4 * rmE * onE + omE * rnE) * matched,
         required_match_rate |-> <<rmE, rnE>>]

(***************************************************************************)
(* Service registry (core/service_registry.py, models/enhanced_models.py). *)
(***************************************************************************)
\* ServiceV2.is_available
is_available(s) == s.status = "online" /\ s.current_load < s.max_concurrent_tasks

\* get_available_services without user preferences: ids of the services
\* that are online and under capacity.
get_available_services(svcs) ==
    {i \in DOMAIN svcs : svcs[i].status = "online"
                         /\ svcs[i].current_load < svcs[i].max_concurrent_tasks}

\* update_service_load: the service table after the load change.
update_service_load(svcs, id, load_change) ==
    IF id \notin DOMAIN svcs THEN svcs
    ELSE LET s == svcs[id]
             load == IF s.current_load + load_change < 0 THEN 0
                     ELSE s.current_load + load_change
             st == IF load >= s.max_concurrent_tasks THEN "busy"
                   ELSE IF s.status = "busy" /\ load < s.max_concurrent_tasks THEN "online"
                   ELSE s.status
         IN [svcs EXCEPT ![id] = [s EXCEPT !.current_load = load, !.status = st]]

RECURSIVE FirstMinLoad(_, _)
\* min(available_services, key=get_load_percentage) over a sequence of
\* service ids: the first one of least load percentage.
FirstMinLoad(svcs, cand) ==
    IF Len(cand) = 1 THEN cand[1]
    ELSE Let(FirstMinLoad(svcs, Tail(cand)), LAMBDA b :
         LET a == cand[1]
             \* load percentages compare by cross-multiplication; max_concurrent_tasks = 0 reads 0.0
             la == IF svcs[a].max_concurrent_tasks = 0 THEN 0 ELSE svcs[a].current_load
             lb == IF svcs[b].max_concurrent_tasks = 0 THEN 0 ELSE svcs[b].current_load
             ma == IF svcs[a].max_concurrent_tasks = 0 THEN 1 ELSE svcs[a].max_concurrent_tasks
             mb == IF svcs[b].max_concurrent_tasks = 0 THEN 1 ELSE svcs[b].max_concurrent_tasks
         IN IF la * mb <= lb * ma THEN a ELSE b)

\* load_balance_selection with LEAST_LOADED: 0 stands for None.
load_balance_selection(svcs, cand) ==
    Let(SelectSeq(cand, LAMBDA i : is_available(svcs[i])), LAMBDA avail :
        IF Len(avail) = 0 THEN 0 ELSE FirstMinLoad(svcs, avail))


(***************************************************************************)
(* Task scheduler (core/task_scheduler.py).                                *)
(***************************************************************************)
\* build_task_requirements: the Task table has no task_template_id column,
\* so the requirements are always inferred from the task name.
build_task_requirements(task) == infer_task_requirements(task.name)

RECURSIVE SortByScore(_, _)
\* match_scores.sort(key=(score, confidence), reverse=True): a stable sort of
\* the service ids S (taken in id order) by decreasing score; the confidence
\* is the same for all services (no performance metrics are recorded).
SortByScore(S, score) ==
    IF S = {} THEN <<>>
    ELSE LET best == Max({score[i] : i \in S})
             m == Min({i \in S : score[i] = best})
         IN <<m>> \o SortByScore(S \ {m}, score)

\* match_capabilities: the service ids in the order of the sorted MatchScore list.
match_capabilities(req, available, svcs) ==
    SortByScore(available,
                [i \in available |-> calculate_match_score(svcs[i].capabilities, req).score])

\* A mapping that keeps the matches of every quality.
resolve_task_service_mappingAnyQuality(task, available, svcs) ==
    IF available = {} THEN 0
    ELSE Let(match_capabilities(build_task_requirements(task), available, svcs),
             LAMBDA match_scores :
                 load_balance_selection(svcs, SubSeq(match_scores, 1,
                     IF Len(match_scores) < TopCandidates
                     THEN Len(match_scores) ELSE TopCandidates)))

\* resolve_task_service_mapping without user preferences: the id of the
\* selected service, 0 for None.
resolve_task_service_mapping(task, available, svcs) ==
    IF available = {} THEN 0
    ELSE Let(build_task_requirements(task), LAMBDA req :
         Let(match_capabilities(req, available, svcs), LAMBDA match_scores :
         Let(SelectSeq(match_scores, LAMBDA i :
                 calculate_match_score(svcs[i].capabilities, req).quality
                     \notin {"poor", "incompatible"}), LAMBDA compatible :
         Let(SubSeq(compatible, 1, IF Len(compatible) < TopCandidates
                                   THEN Len(compatible) ELSE TopCandidates), LAMBDA top :
         Let(SelectSeq(top, LAMBDA i : i \in DOMAIN svcs), LAMBDA service_candidates :
             IF Len(compatible) = 0 \/ Len(service_candidates) = 0 THEN 0
             ELSE load_balance_selection(svcs, service_candidates))))))

\* calculate_task_priority.  The Task table has neither a priority nor an
\* estimated_duration_seconds column, so the getattr defaults apply.
calculate_task_priority(task, strategy) ==
    LET base_priority == DefaultPriority
        buckets == DefaultDurationSeconds \div SjfBucketSeconds
    IN CASE strategy = "priority" -> base_priority
         [] strategy = "sjf" ->
               IF buckets < 1 THEN 1 ELSE IF buckets > 10 THEN 10 ELSE buckets
         [] strategy = "deadline" ->
               IF task.deadline = "hour" THEN 1
               ELSE IF task.deadline = "day" THEN 2
               ELSE base_priority
         [] OTHER -> base_priority

\* calculate_queue_position of an entry e that has been added to queue q.
calculate_queue_position(q, e) ==
    Cardinality({i \in 1..Len(q) :
        /\ q[i].assigned_service_id = e.assigned_service_id
        /\ q[i].status = "pending"
        /\ \/ q[i].priority < e.priority
           \/ q[i].priority = e.priority /\ q[i].created_at < e.created_at}) + 1

\* schedule_single_task: the queue after the task has been scheduled; it is
\* unchanged when no service is available or compatible (the call returns None).
schedule_single_task(q, tid, tsk, svcs, strategy) ==
    Let(get_available_services(svcs), LAMBDA available :
    Let(resolve_task_service_mapping(tsk[tid], available, svcs), LAMBDA selected :
        IF available = {} \/ selected = 0 THEN q
        ELSE Let([workflow_id |-> tsk[tid].workflow_id,
                  task_id |-> tid,
                  assigned_service_id |-> selected,
                  priority |-> calculate_task_priority(tsk[tid], strategy),
                  queue_position |-> 0,
                  status |-> "pending",
                  retry_count |-> 0,
                  created_at |-> Len(q) + 1,
                  waited_hour |-> FALSE],   \* utcnow() - created_at > 1 hour
                 LAMBDA e0 : Append(q, [e0 EXCEPT !.queue_position =
                                 calculate_queue_position(Append(q, e0), e0)]))))

\* analyze_task_dependencies: dependent task id -> set of prerequisite ids
\* (only dependents that have a TaskDependency row are keys of the dict).
analyze_task_dependencies(dp, wid) ==
    LET rows == {d \in dp : d.workflow_id = wid}
        keys == {d.dependent_task_id : d \in rows}
    IN [t \in keys |-> {d.prerequisite_task_id : d \in {r \in rows : r.dependent_task_id = t}}]

\* The tasks of a workflow ordered by order_index (the task id).
WorkflowTasks(tsk, wid) == SortedSeq({t \in DOMAIN tsk : tsk[t].workflow_id = wid})

\* The ScheduleResult fields the model keeps; errors is the length of the list.
ScheduleResult(workflow_id, success, scheduled_tasks, failed_tasks, errors) ==
    [workflow_id |-> workflow_id, success |-> success, scheduled_tasks |-> scheduled_tasks,
     failed_tasks |-> failed_tasks, errors |-> errors]

RECURSIVE ScheduleLoopAbort(_, _, _, _, _)
\* A loop of schedule_workflow that gives up at the first task it cannot schedule.
ScheduleLoopAbort(acc, order, tsk, svcs, strategy) ==
    IF Len(order) = 0 THEN acc
    ELSE Let(schedule_single_task(acc.queue, Head(order), tsk, svcs, strategy), LAMBDA q1 :
             IF Len(q1) > Len(acc.queue)
             THEN ScheduleLoopAbort([acc EXCEPT !.queue = q1,
                                                !.result.scheduled_tasks = @ + 1],
                                    Tail(order), tsk, svcs, strategy)
             ELSE [acc EXCEPT !.result.failed_tasks = @ + 1, !.result.errors = @ + 1])

RECURSIVE ScheduleLoop(_, _, _, _, _)
\* The loop of schedule_workflow over the tasks, in order: acc holds the
\* queue and the schedule_result so far.  A task is scheduled when
\* schedule_single_task returned an entry (it has added one to the queue).
ScheduleLoop(acc, order, tsk, svcs, strategy) ==
    IF Len(order) = 0 THEN acc
    ELSE Let(schedule_single_task(acc.queue, Head(order), tsk, svcs, strategy), LAMBDA q1 :
             IF Len(q1) > Len(acc.queue)
             THEN ScheduleLoop([acc EXCEPT !.queue = q1,
                                           !.result.scheduled_tasks = @ + 1],
                               Tail(order), tsk, svcs, strategy)
             ELSE ScheduleLoop([acc EXCEPT !.result.failed_tasks = @ + 1,
                                           !.result.errors = @ + 1],
                               Tail(order), tsk, svcs, strategy))

\* schedule_workflow: the queue and the workflow table it leaves, and the
\* ScheduleResult it returns.
schedule_workflow(q, wfs, wid, tsk, svcs, strategy) ==
    Let(WorkflowTasks(tsk, wid), LAMBDA order :
        IF Len(order) = 0
        THEN [queue |-> q, workflows |-> wfs, result |-> ScheduleResult(wid, FALSE, 0, 0, 1)]
        ELSE Let(ScheduleLoop([queue |-> q, result |-> ScheduleResult(wid, TRUE, 0, 0, 0)],
                              order, tsk, svcs, strategy), LAMBDA out :
                 [queue |-> out.queue,
                  workflows |-> IF out.result.scheduled_tasks > 0
                                THEN [wfs EXCEPT ![wid].status = "scheduled"] ELSE wfs,
                  result |-> [out.result EXCEPT !.success = out.result.failed_tasks = 0]]))

\* rebalance_queue: the queue it leaves.  Each pending entry is reassigned
\* when the service resolved for its task now differs from the assigned one,
\* and its priority is boosted by one when it has waited more than an hour;
\* queue_position is not written.
rebalance_queue(q, tsk, svcs) ==
    [i \in 1..Len(q) |->
        IF q[i].status # "pending" THEN q[i]
        ELSE Let(resolve_task_service_mapping(tsk[q[i].task_id],
                                              get_available_services(svcs), svcs),
                 LAMBDA optimal :
                    [q[i] EXCEPT
                        !.assigned_service_id = IF optimal # 0 /\ optimal # @ THEN optimal ELSE @,
                        !.priority = IF q[i].waited_hour THEN Max({1, @ - 1}) ELSE @])]

(***************************************************************************)
(* Workflow execution engine (core/workflow_engine.py).                    *)
(***************************************************************************)
RECURSIVE calculate_levelMin(_, _, _)
\* calculate_level taking the least level of the prerequisites, not the greatest.
calculate_levelMin(task_id, dependencies, path) ==
    IF task_id \in path THEN -1
    ELSE IF task_id \notin DOMAIN dependencies \/ dependencies[task_id] = {} THEN 0
    ELSE Let({calculate_levelMin(d, dependencies, path \cup {task_id}) :
                  d \in dependencies[task_id]},
             LAMBDA ls : IF -1 \in ls THEN -1 ELSE Min(ls) + 1)

RECURSIVE calculate_level(_, _, _)
\* calculate_level of group_tasks_by_dependency_level.  The memo task_levels
\* only saves work; path is the chain of calls in progress: when a task comes
\* up again on it the recursion of the code never returns and Python raises
\* RecursionError, which is the value -1 here.
calculate_level(task_id, dependencies, path) ==
    IF task_id \in path THEN -1
    ELSE IF task_id \notin DOMAIN dependencies \/ dependencies[task_id] = {} THEN 0
    ELSE Let({calculate_level(d, dependencies, path \cup {task_id}) :
                  d \in dependencies[task_id]},
             LAMBDA ls : IF -1 \in ls THEN -1 ELSE Max(ls) + 1)

RECURSIVE GroupInsert(_, _, _)
\* levels[level].append(task) on a dict that keeps its keys in insertion
\* order: groups is a sequence of [level, tasks].
GroupInsert(groups, level, t) ==
    IF Len(groups) = 0 THEN <<[level |-> level, tasks |-> <<t>>]>>
    ELSE IF Head(groups).level = level
         THEN <<[Head(groups) EXCEPT !.tasks = Append(@, t)]>> \o Tail(groups)
         ELSE <<Head(groups)>> \o GroupInsert(Tail(groups), level, t)

RECURSIVE GroupLoop(_, _, _)
\* The loop over the tasks, in order_index order.
GroupLoop(groups, order, dependencies) ==
    IF Len(order) = 0 THEN groups
    ELSE Let(calculate_level(Head(order), dependencies, {}), LAMBDA level :
             IF level = -1 THEN <<[level |-> -1, tasks |-> <<>>]>>
             ELSE GroupLoop(GroupInsert(groups, level, Head(order)), Tail(order), dependencies))

\* group_tasks_by_dependency_level: the dict of levels in the order its
\* items() are iterated; the single group of level -1 stands for RecursionError.
group_tasks_by_dependency_level(order, dependencies) == GroupLoop(<<>>, order, dependencies)

RecursionError(groups) == Len(groups) = 1 /\ groups[1].level = -1

\* RecoveryAction: action_type, alternative_service_id (0 for None) and
\* retry_count (0 for None); NoRecovery before handle_service_failure is called.
RecoveryAction(type, alternative_service_id, retry_count) ==
    [type |-> type, alternative_service_id |-> alternative_service_id,
     retry_count |-> retry_count]

NoRecovery == RecoveryAction("none", 0, 0)

\* An executor that has not been called.
IdleExec ==
    [pc |-> "idle", wf |-> 0, mode |-> "none", strategy |-> "none",
     plan |-> <<>>, li |-> 0,
     co |-> [t \in TaskIds |-> "none"],   \* coroutines of the current group
     ent |-> [t \in TaskIds |-> 0],       \* queue_entry held by each coroutine
     sv |-> [t \in TaskIds |-> 0],        \* service a coroutine is calling
     recovery |-> [t \in TaskIds |-> NoRecovery],  \* RecoveryAction a coroutine got last
     started |-> {},                     \* tasks whose entry it has set running
     finished |-> {}, completed |-> {}, failed |-> {},
     result |-> [success |-> FALSE, completed_tasks |-> 0, failed_tasks |-> 0]]

\* An ExecutionResult that reports success whenever a task has completed.
ExecutionResultAnyCompleted(ok, completed_tasks, failed_tasks) ==
    [success |-> ok \/ completed_tasks > 0,
     completed_tasks |-> completed_tasks, failed_tasks |-> failed_tasks]

\* An except block that returns a successful result without an error.
ExecutionErrorSuccess(failed_tasks) ==
    [success |-> TRUE, completed_tasks |-> 0, failed_tasks |-> failed_tasks, errors |-> 0]

\* The ExecutionResult the except block of execute_workflow_optimized
\* returns; errors is the length of the list (the one message
\* "Execution error: ...").
ExecutionError(failed_tasks) ==
    [success |-> FALSE, completed_tasks |-> 0, failed_tasks |-> failed_tasks, errors |-> 1]

\* The ExecutionResult a call returns (read when pc = "done").
ExecutionResult(ok, completed_tasks, failed_tasks) ==
    [success |-> ok, completed_tasks |-> completed_tasks, failed_tasks |-> failed_tasks]

\* An ExecutionPlan that starts all tasks of a sequential run at once.
ExecutionPlanAtOnce(mode, order, dependencies) ==
    IF mode = "sequential"
    THEN [raised |-> FALSE, groups |-> <<order>>]
    ELSE Let(group_tasks_by_dependency_level(order, dependencies), LAMBDA groups :
             [raised |-> RecursionError(groups),
              groups |-> [i \in 1..Len(groups) |-> groups[i].tasks]])

\* The plan of an execution: the groups of tasks run one after the other.
\* execute_sequential runs the tasks one by one in order_index order;
\* execute_parallel (and execute_optimized, which delegates to it) runs the
\* levels in the order of the dict.
ExecutionPlan(mode, order, dependencies) ==
    IF mode = "sequential"
    THEN [raised |-> FALSE, groups |-> [i \in 1..Len(order) |-> <<order[i]>>]]
    ELSE Let(group_tasks_by_dependency_level(order, dependencies), LAMBDA groups :
             [raised |-> RecursionError(groups),
              groups |-> [i \in 1..Len(groups) |-> groups[i].tasks]])

\* ensure_tasks_scheduled: schedules the whole workflow again (default
\* strategy) when the queue holds fewer entries of it than it has tasks.
ensure_tasks_scheduled(q, wfs, wid, tsk, svcs) ==
    LET scheduled_count == Cardinality({i \in 1..Len(q) : q[i].workflow_id = wid})
        tasks_count == Cardinality({t \in DOMAIN tsk : tsk[t].workflow_id = wid})
    IN IF scheduled_count < tasks_count
       THEN schedule_workflow(q, wfs, wid, tsk, svcs, "priority")
       ELSE [queue |-> q, workflows |-> wfs, result |-> ScheduleResult(wid, TRUE, 0, 0, 0)]

\* ExecuteWorkflow, from the call to the first suspension point.
ExecBegin(e, wid, mode, strategy) ==
    /\ execs[e].pc = "idle"
    /\ UNCHANGED <<tasks, deps, objectVars, services, results, levelsOut, scheduleOut>>
    /\ IF wid \notin DOMAIN workflows
       THEN \* ValueError "not found": nothing to mark failed, tasks is not bound
            /\ execs' = [execs EXCEPT ![e] = [IdleExec EXCEPT !.pc = "done", !.wf = wid,
                            !.mode = mode, !.strategy = strategy,
                            !.result = ExecutionError(0)]]
            /\ UNCHANGED <<workflows, queue>>
       ELSE \E order \in {WorkflowTasks(tasks, wid)} :
            IF Len(order) = 0
            THEN \* ValueError "No tasks found"
                 /\ workflows' = [workflows EXCEPT ![wid].status = "failed"]
                 /\ execs' = [execs EXCEPT ![e] = [IdleExec EXCEPT !.pc = "done", !.wf = wid,
                                 !.mode = mode, !.strategy = strategy,
                                 !.result = ExecutionError(0)]]
                 /\ UNCHANGED queue
            ELSE \E sch \in {ensure_tasks_scheduled(queue,
                                [workflows EXCEPT ![wid].status = "running"],
                                wid, tasks, services)},
                    plan \in {ExecutionPlan(mode, order, analyze_task_dependencies(deps, wid))} :
                    /\ Len(sch.queue) <= MaxQueue
                    /\ queue' = sch.queue
                    /\ IF plan.raised
                       THEN /\ workflows' = [sch.workflows EXCEPT ![wid].status = "failed"]
                            /\ execs' = [execs EXCEPT ![e] = [IdleExec EXCEPT !.pc = "done",
                                            !.wf = wid, !.mode = mode, !.strategy = strategy,
                                            !.result = ExecutionError(Len(order))]]
                       ELSE /\ workflows' = sch.workflows
                            /\ execs' = [execs EXCEPT ![e] = [IdleExec EXCEPT !.pc = "running",
                                            !.wf = wid, !.mode = mode, !.strategy = strategy,
                                            !.plan = plan.groups, !.li = 1,
                                            !.co = [t \in TaskIds |->
                                                IF t \in Range(plan.groups[1]) THEN "ready" ELSE "none"]]]

\* execute_single_task, from its call to the HTTP request to the service.
\* No queue entry, or no service row for the entry: the task fails unattempted.
TaskStart(e, t) ==
    /\ execs[e].pc = "running"
    /\ execs[e].co[t] = "ready"
    /\ UNCHANGED <<workflows, tasks, deps, objectVars, services, results, levelsOut, scheduleOut>>
    /\ LET mine == {i \in 1..Len(queue) : queue[i].task_id = t} IN
       IF mine = {}
       THEN /\ execs' = [execs EXCEPT ![e].co[t] = "fail",
                                      ![e].failed = @ \cup {t},
                                      ![e].finished = @ \cup {t}]
            /\ UNCHANGED queue
       ELSE \E i \in mine :
            IF queue[i].assigned_service_id \notin DOMAIN services
            THEN /\ execs' = [execs EXCEPT ![e].co[t] = "fail",
                                           ![e].failed = @ \cup {t},
                                           ![e].finished = @ \cup {t}]
                 /\ UNCHANGED queue
            ELSE /\ queue' = [queue EXCEPT ![i].status = "running"]
                 /\ execs' = [execs EXCEPT ![e].co[t] = "called",
                                           ![e].ent[t] = i,
                                           ![e].sv[t] = queue[i].assigned_service_id,
                                           ![e].started = @ \cup {t}]

\* handle_service_failure that still retries when retry_count equals max_retries.
handle_service_failureLe(t, failed_service, strategy, first) ==
    Let(get_available_services(services) \ {failed_service}, LAMBDA available :
    Let(resolve_task_service_mapping(tasks[t], available, services), LAMBDA alternative :
    Let(IF available # {} /\ alternative # 0
        THEN RecoveryAction("fallback", alternative, 0)
        ELSE RecoveryAction("continue", 0, 0), LAMBDA fallback :
        CASE strategy = "fail_fast" -> RecoveryAction("fail_fast", 0, 0)
          [] strategy = "retry" ->
                IF first # 0 /\ queue[first].retry_count <= EngineMaxRetries
                THEN RecoveryAction("retry", 0, queue[first].retry_count + 1)
                ELSE fallback
          [] strategy = "fallback" -> fallback
          [] OTHER -> RecoveryAction("continue", 0, 0))))

\* handle_service_failure that looks for the alternative among all the
\* available services, the failed one included.
handle_service_failureAnyService(t, failed_service, strategy, first) ==
    Let(get_available_services(services), LAMBDA available :
    Let(resolve_task_service_mapping(tasks[t], available, services), LAMBDA alternative :
    Let(IF available # {} /\ alternative # 0
        THEN RecoveryAction("fallback", alternative, 0)
        ELSE RecoveryAction("continue", 0, 0), LAMBDA fallback :
        CASE strategy = "fail_fast" -> RecoveryAction("fail_fast", 0, 0)
          [] strategy = "retry" ->
                IF first # 0 /\ queue[first].retry_count < EngineMaxRetries
                THEN RecoveryAction("retry", 0, queue[first].retry_count + 1)
                ELSE fallback
          [] strategy = "fallback" -> fallback
          [] OTHER -> RecoveryAction("continue", 0, 0))))

\* handle_service_failure: the RecoveryAction it returns.
\* first is the queue entry its query for the task returned.
handle_service_failure(t, failed_service, strategy, first) ==
    Let(get_available_services(services) \ {failed_service}, LAMBDA available :
    Let(resolve_task_service_mapping(tasks[t], available, services), LAMBDA alternative :
    Let(IF available # {} /\ alternative # 0
        THEN RecoveryAction("fallback", alternative, 0)
        ELSE RecoveryAction("continue", 0, 0), LAMBDA fallback :
        CASE strategy = "fail_fast" -> RecoveryAction("fail_fast", 0, 0)
          [] strategy = "retry" ->
                IF first # 0 /\ queue[first].retry_count < EngineMaxRetries
                THEN RecoveryAction("retry", 0, queue[first].retry_count + 1)
                ELSE fallback
          [] strategy = "fallback" -> fallback
          [] OTHER -> RecoveryAction("continue", 0, 0))))

\* execute_single_task, from the answer of the service to the return or to
\* the request to the alternative service.
TaskResult(e, t, ok) ==
    /\ execs[e].pc = "running"
    /\ execs[e].co[t] = "called"
    /\ UNCHANGED <<workflows, deps, objectVars, levelsOut, scheduleOut>>
    /\ LET i == execs[e].ent[t]
           s == execs[e].sv[t]
       IN IF ok
          THEN /\ queue' = [queue EXCEPT ![i].status = "completed"]
               /\ tasks' = [tasks EXCEPT ![t].status = "completed"]
               /\ results' = results \cup {t}
               /\ services' = update_service_load(services, s, -1)
               /\ execs' = [execs EXCEPT ![e].co[t] = "ok",
                                         ![e].completed = @ \cup {t},
                                         ![e].finished = @ \cup {t}]
          ELSE \E first \in {j \in 1..Len(queue) : queue[j].task_id = t} :
               \E action \in {handle_service_failure(t, s, execs[e].strategy, first)} :
               LET alt == action.alternative_service_id
               IN /\ tasks' = [tasks EXCEPT ![t].status = "failed"]
                  /\ UNCHANGED <<results, services>>
                  /\ IF action.type = "fallback" /\ alt # 0 /\ alt \in DOMAIN services
                     THEN /\ queue' = [queue EXCEPT ![i].status = "failed",
                                                    ![i].assigned_service_id = alt,
                                                    ![i].retry_count = @ + 1]
                          /\ execs' = [execs EXCEPT ![e].co[t] = "altcalled",
                                                    ![e].sv[t] = alt,
                                                    ![e].recovery[t] = action]
                     ELSE /\ queue' = [queue EXCEPT ![i].status = "failed"]
                          /\ execs' = [execs EXCEPT ![e].co[t] = "fail",
                                                    ![e].recovery[t] = action,
                                                    ![e].failed = @ \cup {t},
                                                    ![e].finished = @ \cup {t}]

\* execute_single_task, from the answer of the alternative service to the return.
TaskAltResult(e, t, ok) ==
    /\ execs[e].pc = "running"
    /\ execs[e].co[t] = "altcalled"
    /\ UNCHANGED <<workflows, deps, objectVars, results, levelsOut, scheduleOut>>
    /\ LET i == execs[e].ent[t]
           s == execs[e].sv[t]
       IN IF ok
          THEN /\ queue' = [queue EXCEPT ![i].status = "completed"]
               /\ tasks' = [tasks EXCEPT ![t].status = "completed"]
               /\ services' = update_service_load(services, s, -1)
               /\ execs' = [execs EXCEPT ![e].co[t] = "ok",
                                         ![e].completed = @ \cup {t},
                                         ![e].finished = @ \cup {t}]
          ELSE /\ execs' = [execs EXCEPT ![e].co[t] = "fail",
                                         ![e].failed = @ \cup {t},
                                         ![e].finished = @ \cup {t}]
               /\ UNCHANGED <<queue, tasks, services>>

\* The end of a group: the loop of execute_sequential or execute_parallel
\* takes the results of the group, stops (fail-fast) or starts the next group,
\* and after the last one execute_workflow_optimized sets the final status.
GroupDone(e) ==
    /\ execs[e].pc = "running"
    /\ LET x == execs[e]
           group == Range(x.plan[x.li])
           level_failed == group \cap x.failed # {}
           stop == (level_failed /\ x.strategy = "fail_fast") \/ x.li = Len(x.plan)
       IN /\ \A t \in group : x.co[t] \in {"ok", "fail"}
          /\ IF stop
             THEN \E result \in {ExecutionResult(Cardinality(x.failed) = 0,
                                                 Cardinality(x.completed),
                                                 Cardinality(x.failed))} :
                  /\ workflows' = [workflows EXCEPT
                        ![x.wf].status = IF result.success THEN "completed" ELSE "failed"]
                  /\ execs' = [execs EXCEPT ![e].pc = "done",
                        ![e].co = [t \in TaskIds |-> "none"],
                        ![e].result = result]
             ELSE /\ execs' = [execs EXCEPT ![e].li = x.li + 1,
                        ![e].co = [t \in TaskIds |->
                            IF t \in Range(x.plan[x.li + 1]) THEN "ready" ELSE "none"]]
                  /\ UNCHANGED workflows
    /\ UNCHANGED <<tasks, deps, objectVars, services, queue, results, levelsOut, scheduleOut>>

\* The call has returned its ExecutionResult to the request handler; the
\* next request is served by a new call of execute_workflow_optimized.
ExecReturn(e) ==
    /\ execs[e].pc = "done"
    /\ execs' = [execs EXCEPT ![e] = IdleExec]
    /\ UNCHANGED <<workflows, tasks, deps, objectVars, services, queue, results, levelsOut, scheduleOut>>

\* POST /api/v2/workflows/{id}/schedule
ScheduleWorkflow(wid, strategy) ==
    /\ wid \in DOMAIN workflows
    /\ \E sch \in {schedule_workflow(queue, workflows, wid, tasks, services, strategy)} :
          /\ Len(sch.queue) <= MaxQueue
          /\ queue' = sch.queue
          /\ workflows' = sch.workflows
          /\ scheduleOut' = sch.result
    /\ UNCHANGED <<tasks, deps, objectVars, services, results, execs, levelsOut>>

\* POST /api/v2/workflows/queue/rebalance (the background task it starts)
RebalanceQueue ==
    /\ queue' = rebalance_queue(queue, tasks, services)
    /\ UNCHANGED <<workflows, tasks, deps, objectVars, services, results, execs, levelsOut, scheduleOut>>

\* POST /api/v2/workflows/{id}/priority: 400 unless 1 <= priority <= 10,
\* else the priority of every pending entry of the workflow is set.
UpdatePriority(wid, priority) ==
    /\ IF priority < 1 \/ priority > 10
       THEN UNCHANGED queue
       ELSE queue' = [i \in 1..Len(queue) |->
                IF queue[i].workflow_id = wid /\ queue[i].status = "pending"
                THEN [queue[i] EXCEPT !.priority = priority]
                ELSE queue[i]]
    /\ UNCHANGED <<workflows, tasks, deps, objectVars, services, results, execs, levelsOut, scheduleOut>>

\* POST /api/v2/services/{id}/load
UpdateLoad(id, load_change) ==
    /\ services' = update_service_load(services, id, load_change)
    /\ UNCHANGED <<workflows, tasks, deps, objectVars, queue, results, execs, levelsOut, scheduleOut>>

\* health_check_service, from the answer of the service's health endpoint:
\* 200, another status code, or no answer (an exception).
HealthCheck(id, answer) ==
    /\ id \in DOMAIN services
    /\ services' = [services EXCEPT ![id].status =
            CASE answer = "ok" -> "online"
              [] answer = "status" -> "error"
              [] OTHER -> "offline"]
    /\ UNCHANGED <<workflows, tasks, deps, objectVars, queue, results, execs, levelsOut, scheduleOut>>

\* More than an hour passes: every entry created so far has now waited
\* longer than the hour after which rebalancing boosts its priority.
HourPasses ==
    /\ queue' = [i \in 1..Len(queue) |-> [queue[i] EXCEPT !.waited_hour = TRUE]]
    /\ UNCHANGED <<workflows, tasks, deps, objectVars, services, results, execs, levelsOut, scheduleOut>>

\* A cancel request that also cancels the running entries of the workflow.
CancelWorkflowExecutionRunning(wid) ==
    /\ queue' = [i \in 1..Len(queue) |->
            IF queue[i].workflow_id = wid /\ queue[i].status \in {"pending", "running"}
            THEN [queue[i] EXCEPT !.status = "cancelled"]
            ELSE queue[i]]
    /\ workflows' = IF wid \in DOMAIN workflows
                    THEN [workflows EXCEPT ![wid].status = "cancelled"]
                    ELSE workflows
    /\ UNCHANGED <<tasks, deps, objectVars, services, results, execs, levelsOut, scheduleOut>>

\* DELETE /api/v2/workflows/{id}/cancel: every pending entry of the workflow
\* becomes cancelled, and the workflow, when it exists, cancelled.
CancelWorkflowExecution(wid) ==
    /\ queue' = [i \in 1..Len(queue) |->
            IF queue[i].workflow_id = wid /\ queue[i].status = "pending"
            THEN [queue[i] EXCEPT !.status = "cancelled"]
            ELSE queue[i]]
    /\ workflows' = IF wid \in DOMAIN workflows
                    THEN [workflows EXCEPT ![wid].status = "cancelled"]
                    ELSE workflows
    /\ UNCHANGED <<tasks, deps, objectVars, services, results, execs, levelsOut, scheduleOut>>

\* POST /api/workflows/{id}/pause: 404 for an unknown workflow, 400 unless it is running.
pause_workflow(wid) ==
    /\ workflows' = IF wid \in DOMAIN workflows /\ workflows[wid].status = "running"
                    THEN [workflows EXCEPT ![wid].status = "paused"]
                    ELSE workflows
    /\ UNCHANGED <<tasks, deps, objectVars, services, queue, results, execs, levelsOut, scheduleOut>>

\* POST /api/workflows/{id}/stop: 404 for an unknown workflow, 400 unless it
\* is running or paused; the running tasks of the workflow become stopped.
stop_workflow(wid) ==
    /\ IF wid \in DOMAIN workflows /\ workflows[wid].status \in {"running", "paused"}
       THEN /\ workflows' = [workflows EXCEPT ![wid].status = "stopped"]
            /\ tasks' = [t \in DOMAIN tasks |->
                    IF tasks[t].workflow_id = wid /\ tasks[t].status = "running"
                    THEN [tasks[t] EXCEPT !.status = "stopped"]
                    ELSE tasks[t]]
       ELSE UNCHANGED <<workflows, tasks>>
    /\ UNCHANGED <<deps, objectVars, services, queue, results, execs, levelsOut, scheduleOut>>

\* POST /api/workflows/{id}/resume: 404 for an unknown workflow, 400 unless it is paused.
resume_workflow(wid) ==
    /\ workflows' = IF wid \in DOMAIN workflows /\ workflows[wid].status = "paused"
                    THEN [workflows EXCEPT ![wid].status = "running"]
                    ELSE workflows
    /\ UNCHANGED <<tasks, deps, objectVars, services, queue, results, execs, levelsOut, scheduleOut>>


(***************************************************************************)
(* The engine under concurrent requests: one workflow of NumTasks tasks,   *)
(* two services of capacity 1, schedule requests and ExecuteWorkflow calls.*)
(***************************************************************************)
\* Names of the tasks, as keyword sets: "Sample Preparation", "HPLC Analysis",
\* and "Data Export" for the others.
TaskNames == <<{"sample", "prep"}, {"hplc"}>>
NameOf(t) == IF t <= Len(TaskNames) THEN TaskNames[t] ELSE {}

\* TaskDependency rows over the tasks of workflow 1 the runs start from:
\* none, a chain, a fork, a dependency on a later task, and a cycle.
Dep(a, b) == [workflow_id |-> 1, dependent_task_id |-> a, prerequisite_task_id |-> b]
DepGraphs ==
    { {}, {Dep(2, 1), Dep(3, 2)}, {Dep(3, 1)}, {Dep(1, 2)}, {Dep(1, 2), Dep(2, 1)} }

\* No message in the broker, no check scheduled, no worker executing a task.
IdleCelery ==
    [execute_workflow |-> {}, execute_lab_task |-> {},
     complete_workflow |-> [w \in {1, 2} |-> 0], busy |-> {}]

\* No batch_execute_workflows call has been made.
IdleBatch ==
    [pc |-> "idle", workflow_ids |-> <<>>, optimization_strategy |-> "none",
     max_concurrent |-> 0,
     ordered |-> <<>>,    \* ordered_workflows, as ids
     results |-> <<>>,    \* what the coroutine of each ordered workflow has returned to gather
     result |-> <<>>]     \* the BatchResult

\* ServiceRegistry.__init__ on a new Session: no rotation counter yet, no
\* selection made, no row loaded.
InitObjects ==
    /\ round_robin_counters = [key \in {} |-> 0]
    /\ selections = <<>>
    /\ identity_map = [e \in Executors |-> [id \in ServiceIds |-> <<>>]]
    /\ matchOut = <<>>
    /\ batch = IdleBatch
    /\ preferences = [exists |-> FALSE, preferred_service_ids |-> <<>>,
                      blacklisted_service_ids |-> {}]
    /\ celery = IdleCelery
    /\ elapsed_time = [t \in TaskIds |-> <<0, 0>>]

InitServices ==
    [i \in ServiceIds |->
        [status |-> "online", current_load |-> 0, max_concurrent_tasks |-> 1,
         capabilities |-> IF i = 1 THEN {"balance", "pipette"}
                          ELSE {"hplc", "uv_detector", "autosampler"}]]

Init ==
    /\ workflows = [w \in {1} |-> [status |-> "pending"]]
    /\ tasks = [t \in TaskIds |-> [workflow_id |-> 1, name |-> NameOf(t),
                                   status |-> "pending", deadline |-> "none"]]
    /\ deps \in DepGraphs
    /\ services = InitServices
    /\ queue = <<>>
    /\ results = {}
    /\ execs = [e \in Executors |-> IdleExec]
    /\ levelsOut = <<>>
    /\ scheduleOut = <<>>
    /\ InitObjects

Next ==
    \/ ScheduleWorkflow(1, "priority")
    \/ \E m \in ExecutionMode, r \in RecoveryStrategy : ExecBegin(1, 1, m, r)
    \/ \E t \in TaskIds : TaskStart(1, t)
    \/ \E t \in TaskIds, ok \in BOOLEAN : TaskResult(1, t, ok)
    \/ \E t \in TaskIds, ok \in BOOLEAN : TaskAltResult(1, t, ok)
    \/ GroupDone(1)

Spec == Init /\ [][Next]_vars

(***************************************************************************)
(* Properties of the engine.                                               *)
(***************************************************************************)
\* The dependency level of task t of workflow 1 (-1 when t lies on or behind a cycle).
DependencyLevel(t) == calculate_level(t, analyze_task_dependencies(deps, 1), {})

Cyclic == \E t \in TaskIds : DependencyLevel(t) = -1

LevelMode(e) == execs[e].mode \in {"parallel", "optimized"}

\* C1: the number of running queue entries assigned to a service never
\* exceeds the service's max_concurrent_tasks.
C1_RunningWithinCapacity ==
    \A s \in ServiceIds :
        Cardinality({i \in 1..Len(queue) : queue[i].status = "running"
                                           /\ queue[i].assigned_service_id = s})
            <= services[s].max_concurrent_tasks

\* C5: no task ever has more than one non-terminal queue entry (pending,
\* assigned or running), whatever ScheduleWorkflow and ExecuteWorkflow calls are made.
C5_OneNonTerminalEntryPerTask ==
    \A t \in TaskIds :
        Cardinality({i \in 1..Len(queue) : queue[i].task_id = t
                                           /\ queue[i].status \in NonTerminal}) <= 1

\* C7: in parallel and optimized mode a task is started only when every
\* task of every lower dependency level has finished.
C7_LevelsInIncreasingOrder ==
    [][\A e \in Executors, t \in TaskIds :
          (LevelMode(e) /\ t \in execs'[e].started /\ t \notin execs[e].started)
              => \A u \in TaskIds :
                    DependencyLevel(u) < DependencyLevel(t) => u \in execs[e].finished]_vars

\* The break of the loop of execute_parallel: in parallel mode with fail-fast
\* no task of a higher level is started once a task has failed, and when the
\* call returns every task of the level of a failed task has been attempted.
FailFastStopsLaterStarts ==
    [][\A e \in Executors :
          (execs'[e].mode = "parallel" /\ execs'[e].strategy = "fail_fast")
              => /\ \A u \in execs'[e].started \ execs[e].started :
                        \A t \in execs[e].failed : DependencyLevel(t) >= DependencyLevel(u)
                 /\ (execs'[e].pc = "done" /\ execs[e].pc = "running")
                        => \A t \in execs'[e].failed, u \in TaskIds :
                              DependencyLevel(u) = DependencyLevel(t)
                                  => u \in execs'[e].finished]_vars

\* C8: in parallel mode with fail-fast, when a task of a level has failed,
\* every other task of that level is attempted (it completes or fails) before
\* the call returns, and no task of a higher level is ever started by the call.
C8_FailFastNoHigherLevel ==
    \A e \in Executors :
        (execs[e].mode = "parallel" /\ execs[e].strategy = "fail_fast")
            => \A t \in execs[e].failed, u \in TaskIds :
                  /\ DependencyLevel(u) > DependencyLevel(t) => u \notin execs[e].started
                  /\ (DependencyLevel(u) = DependencyLevel(t) /\ execs[e].pc = "done")
                        => u \in execs[e].finished

\* C10: a workflow with a cyclic dependency graph gets no queue entries and
\* none of its tasks is started, and a call for it returns a failure.
C10_CyclicWorkflowRejected ==
    Cyclic => /\ queue = <<>>
              /\ \A e \in Executors : execs[e].started = {}
              /\ \A e \in Executors : execs[e].pc = "done" => ~execs[e].result.success

(***************************************************************************)
(* Concurrent ExecuteWorkflow calls (two requests, or the workflows of one *)
(* BatchExecute): workflow 1 holds all tasks but the last, workflow 2 the  *)
(* last one; the calls schedule their workflow lazily.                     *)
(***************************************************************************)
InitConcurrent ==
    /\ workflows = [w \in {1, 2} |-> [status |-> "pending"]]
    /\ tasks = [t \in TaskIds |-> [workflow_id |-> IF t < NumTasks THEN 1 ELSE 2,
                                   name |-> NameOf(t),
                                   status |-> "pending", deadline |-> "none"]]
    /\ deps = {}
    /\ services = InitServices
    /\ queue = <<>>
    /\ results = {}
    /\ execs = [e \in Executors |-> IdleExec]
    /\ levelsOut = <<>>
    /\ scheduleOut = <<>>
    /\ InitObjects

NextConcurrent ==
    \/ \E e \in Executors, w \in DOMAIN workflows, m \in {"sequential", "parallel"},
          r \in {"continue", "fallback"} : ExecBegin(e, w, m, r)
    \/ \E e \in Executors, t \in TaskIds : TaskStart(e, t)
    \/ \E e \in Executors, t \in TaskIds, ok \in BOOLEAN : TaskResult(e, t, ok)
    \/ \E e \in Executors, t \in TaskIds, ok \in BOOLEAN : TaskAltResult(e, t, ok)
    \/ \E e \in Executors : GroupDone(e)

SpecConcurrent == InitConcurrent /\ [][NextConcurrent]_vars

\* C4: no two executors claim the same queue entry: an entry is never held
\* by two ExecuteWorkflow calls that both set it running and both have the
\* request to its service in flight.
C4_EntryClaimedOnce ==
    \A e1, e2 \in Executors, t \in TaskIds :
        (e1 # e2 /\ execs[e1].co[t] \in {"called", "altcalled"}
                 /\ execs[e2].co[t] \in {"called", "altcalled"})
            => execs[e1].ent[t] # execs[e2].ent[t]

(***************************************************************************)
(* Dependency leveling on its own: every dependency relation over the      *)
(* tasks of workflow 1 (cyclic ones included), grouped again and again.    *)
(***************************************************************************)
AllDeps == {Dep(a, b) : a, b \in TaskIds} \ {Dep(a, a) : a \in TaskIds}

InitLevels ==
    /\ workflows = [w \in {1} |-> [status |-> "pending"]]
    /\ tasks = [t \in TaskIds |-> [workflow_id |-> 1, name |-> NameOf(t),
                                   status |-> "pending", deadline |-> "none"]]
    /\ deps \in SUBSET AllDeps
    /\ services = InitServices
    /\ queue = <<>>
    /\ results = {}
    /\ execs = [e \in Executors |-> IdleExec]
    /\ levelsOut = <<>>
    /\ scheduleOut = <<>>
    /\ InitObjects

\* A call of group_tasks_by_dependency_level on the tasks of workflow 1.
GroupTasks ==
    /\ levelsOut' = group_tasks_by_dependency_level(WorkflowTasks(tasks, 1),
                                                    analyze_task_dependencies(deps, 1))
    /\ UNCHANGED <<workflows, tasks, deps, objectVars, services, queue, results, execs, scheduleOut>>

NextLevels == GroupTasks

SpecLevels == InitLevels /\ [][NextLevels]_vars

Prerequisites(t) == {d.prerequisite_task_id : d \in {r \in deps : r.dependent_task_id = t}}

\* The dependency chains: c[1] depends on c[2], which depends on c[3], ...
Chains ==
    {c \in UNION {[1..n -> TaskIds] : n \in 2..(NumTasks + 1)} :
        \A i \in 1..(Len(c) - 1) : c[i + 1] \in Prerequisites(c[i])}

Acyclic == \A c \in Chains : c[1] # c[Len(c)]

\* The levels under which task t is listed in the grouping that was returned.
LevelsOf(t) == {levelsOut[i].level : i \in {j \in 1..Len(levelsOut) :
                                            t \in Range(levelsOut[j].tasks)}}

\* The grouping of an acyclic graph lists every task under exactly one
\* level: 0 exactly for the tasks without prerequisites, 1 + the greatest
\* level of its prerequisites for the others; a task that heads a chain of k
\* ancestors has level >= k and the levels strictly increase along a chain.
LevelsOfAcyclicGraph ==
    (levelsOut # <<>> /\ Acyclic) =>
        /\ \A t \in TaskIds : Cardinality(LevelsOf(t)) = 1
        /\ \A t \in TaskIds :
              LET l == CHOOSE x \in LevelsOf(t) : TRUE IN
              /\ (l = 0) <=> (Prerequisites(t) = {})
              /\ Prerequisites(t) # {} =>
                    l = 1 + Max(UNION {LevelsOf(p) : p \in Prerequisites(t)})
        /\ \A c \in Chains :
              /\ \A l \in LevelsOf(c[1]) : l >= Len(c) - 1
              /\ \A i \in 1..(Len(c) - 1) :
                    \A l \in LevelsOf(c[i]), m \in LevelsOf(c[i + 1]) : l > m

\* C9: dependency leveling of an acyclic graph gives level 0 to exactly the
\* tasks without prerequisites and 1 + max(level of the prerequisites) to
\* the others, so a task with k sequential ancestors has level >= k and a
\* chain has strictly increasing levels; computing the levels again yields
\* the same grouping.
C9_Leveling ==
    /\ []LevelsOfAcyclicGraph
    /\ [][levelsOut # <<>> => levelsOut' = levelsOut]_vars

\* C9 witness: the grouping of an acyclic graph in which task 1 depends on
\* a later task and has level 2 (a chain of two ancestors).
C9_Witness ==
    /\ levelsOut # <<>> /\ Acyclic
    /\ Prerequisites(1) # {}
    /\ LevelsOf(1) = {2}

(***************************************************************************)
(* The service load under load updates and task completions: the load API  *)
(* beside one sequential execution of workflow 1.                          *)
(***************************************************************************)
MaxLoad == 3    \* no load update that would bring a load above this

NextLoad ==
    \/ \E id \in ServiceIds, load_change \in {-1, 1} :
          /\ services[id].current_load + load_change <= MaxLoad
          /\ UpdateLoad(id, load_change)
    \/ ExecBegin(1, 1, "sequential", "continue")
    \/ \E t \in TaskIds : TaskStart(1, t)
    \/ \E t \in TaskIds, ok \in BOOLEAN : TaskResult(1, t, ok)
    \/ GroupDone(1)

SpecLoad == InitConcurrent /\ [][NextLoad]_vars

\* C2: the load of every service stays between 0 and its
\* max_concurrent_tasks under any interleaving of load updates (positive and
\* negative) and task completions.
C2_LoadWithinCapacity ==
    \A id \in ServiceIds :
        /\ 0 <= services[id].current_load
        /\ services[id].current_load <= services[id].max_concurrent_tasks

\* The lower half of C2, which the max(0, ...) of update_service_load keeps.
LoadNotNegative == \A id \in ServiceIds : 0 <= services[id].current_load

(***************************************************************************)
(* The queue under scheduling and maintenance requests: schedule requests  *)
(* in every strategy, priority updates, rebalancing, health checks and the *)
(* passing of time.  All tasks but the last are sample preparations, which *)
(* only service 1 can run; the last one has no requirements; task 2 has a  *)
(* deadline within the hour.                                               *)
(***************************************************************************)
InitQueue ==
    /\ workflows = [w \in {1} |-> [status |-> "pending"]]
    /\ tasks = [t \in TaskIds |->
                    [workflow_id |-> 1,
                     name |-> IF t < NumTasks THEN NameOf(1) ELSE {},
                     status |-> "pending",
                     deadline |-> IF t = 2 THEN "hour" ELSE "none"]]
    /\ deps = {}
    /\ services = InitServices
    /\ queue = <<>>
    /\ results = {}
    /\ execs = [e \in Executors |-> IdleExec]
    /\ levelsOut = <<>>
    /\ scheduleOut = <<>>
    /\ InitObjects

QueueCap == 4    \* no schedule request that would bring the queue above this many entries

NextQueue ==
    \/ \E s \in SchedulingStrategy : ScheduleWorkflow(1, s) /\ Len(queue') <= QueueCap
    \/ UpdatePriority(1, 1)
    \/ RebalanceQueue
    \/ HourPasses
    \/ \E answer \in {"ok", "none"} : HealthCheck(1, answer)

SpecQueue == InitQueue /\ [][NextQueue]_vars

\* The services that can run task t: those the matcher rates better than poor.
CompatibleServices(t) ==
    {id \in ServiceIds :
        calculate_match_score(services[id].capabilities,
                              build_task_requirements(tasks[t])).quality
            \notin {"poor", "incompatible"}}

PendingOn(id) == {i \in 1..Len(queue) : queue[i].status = "pending"
                                        /\ queue[i].assigned_service_id = id}

\* C3: two tasks whose only compatible service has capacity 1 are queued on
\* it one behind the other: their pending entries never both hold
\* queue_position 1, and the load of the service never exceeds 1.
C3_SecondTaskQueuedBehind ==
    \A id \in ServiceIds : \A i, j \in PendingOn(id) :
        (/\ queue[i].task_id # queue[j].task_id
         /\ services[id].max_concurrent_tasks = 1
         /\ CompatibleServices(queue[i].task_id) = {id}
         /\ CompatibleServices(queue[j].task_id) = {id})
            => /\ ~(queue[i].queue_position = 1 /\ queue[j].queue_position = 1)
               /\ services[id].current_load <= 1

\* C6: of two pending entries assigned to the same service, the one with the
\* lower priority number, or with the same priority and the earlier
\* created_at, has the strictly smaller queue_position.
C6_PositionFollowsPriority ==
    \A id \in ServiceIds : \A i, j \in PendingOn(id) :
        (\/ queue[i].priority < queue[j].priority
         \/ /\ queue[i].priority = queue[j].priority
            /\ queue[i].created_at < queue[j].created_at)
            => queue[i].queue_position < queue[j].queue_position

(***************************************************************************)
(* Failure recovery over repeated executions: workflow 2 (the last task,   *)
(* which has no requirements, so that either service can run it) is        *)
(* executed again and again under every recovery strategy, while health    *)
(* checks take the services offline and back.                              *)
(***************************************************************************)
MaxRetryCount == 4   \* no further execution once an entry has been re-attempted this often

NextRetry ==
    \/ \E r \in RecoveryStrategy :
          /\ \A i \in 1..Len(queue) : queue[i].retry_count < MaxRetryCount
          /\ ExecBegin(1, 2, "sequential", r)
    \/ \E t \in TaskIds : TaskStart(1, t)
    \/ \E t \in TaskIds, ok \in BOOLEAN : TaskResult(1, t, ok)
    \/ \E t \in TaskIds, ok \in BOOLEAN : TaskAltResult(1, t, ok)
    \/ GroupDone(1)
    \/ ExecReturn(1)
    \/ \E id \in ServiceIds, answer \in {"ok", "none"} : HealthCheck(id, answer)

SpecRetry == InitConcurrent /\ [][NextRetry]_vars

\* Task t has an alternate service to failed_service: another service that
\* is online, under capacity and compatible with the task.
AlternateExists(t, failed_service) ==
    \E id \in CompatibleServices(t) \ {failed_service} : is_available(services[id])

\* The answer of the service to the call of coroutine t of executor e is a
\* failure, and this step handles it.
FailureHandled(e, t) ==
    /\ execs[e].co[t] = "called"
    /\ execs'[e].co[t] \in {"altcalled", "fail"}

\* C11: under the retry strategy handle_service_failure answers RETRY only
\* while the retry_count of the task's entry is below max_retries (the retry
\* it announces is at most the max_retries-th); once retry_count has reached
\* max_retries it answers FALLBACK when an alternate service exists and
\* CONTINUE when none does, never RETRY.
C11_RetryOnlyBelowMaxRetries ==
    [][\A e \in Executors, t \in TaskIds :
          (FailureHandled(e, t) /\ execs[e].strategy = "retry")
              => \E first \in {j \in 1..Len(queue) : queue[j].task_id = t} :
                    LET action == execs'[e].recovery[t]
                        retry_count == queue[first].retry_count
                    IN /\ action.type \in {"retry", "fallback", "continue"}
                       /\ action.type = "retry" <=> retry_count < EngineMaxRetries
                       /\ action.type = "retry" => action.retry_count <= EngineMaxRetries
                       /\ retry_count >= EngineMaxRetries =>
                             /\ action.type = "fallback" <=> AlternateExists(t, execs[e].sv[t])
                             /\ action.type = "continue" <=> ~AlternateExists(t, execs[e].sv[t])]_vars

\* C11 witness: under the retry strategy a failure of a task whose only
\* entry has reached max_retries has been answered by FALLBACK.
C11_Witness ==
    \E e \in Executors, t \in TaskIds :
        /\ execs[e].strategy = "retry"
        /\ execs[e].recovery[t].type = "fallback"
        /\ Cardinality({j \in 1..Len(queue) : queue[j].task_id = t}) = 1
        /\ \A j \in 1..Len(queue) : queue[j].task_id = t => queue[j].retry_count > EngineMaxRetries

\* C12: under the retry strategy a failed task whose entry has retry_count
\* below max_retries is re-attempted: the step that handles the failure with
\* a RETRY action increments the entry's retry_count by one and does not yet
\* report the task as failed.
C12_RetryReattempts ==
    [][\A e \in Executors, t \in TaskIds :
          (FailureHandled(e, t) /\ execs'[e].recovery[t].type = "retry")
              => /\ queue'[execs[e].ent[t]].retry_count
                        = queue[execs[e].ent[t]].retry_count + 1
                 /\ t \notin execs'[e].failed]_vars

\* C13: retry_count <= max_retries for every queue entry in every reachable
\* state, under every recovery strategy and across repeated executions of
\* the same workflow.
C13_RetryCountWithinMaxRetries ==
    \A i \in 1..Len(queue) : queue[i].retry_count <= EngineMaxRetries

(***************************************************************************)
(* The ExecutionResult of a call and the final workflow status.            *)
(***************************************************************************)
TasksOf(wid) == {t \in TaskIds : tasks[t].workflow_id = wid}

\* The call of executor e has returned an ExecutionResult for a workflow that exists.
Returned(e) == execs[e].pc = "done" /\ execs[e].wf \in DOMAIN workflows

\* C14: in every ExecutionResult returned when a workflow is terminal,
\* completed_tasks + failed_tasks is the number of tasks of the workflow, in
\* every execution mode and under every recovery strategy (fail-fast included).
C14_ResultCountsAllTasks ==
    \A e \in Executors :
        Returned(e) => execs[e].result.completed_tasks + execs[e].result.failed_tasks
                           = Cardinality(TasksOf(execs[e].wf))

\* What holds of C14: the counts add up to the number of tasks under every
\* strategy but fail-fast, and never exceed it.
ResultCountsWithoutFailFast ==
    \A e \in Executors :
        Returned(e) =>
            /\ execs[e].result.completed_tasks + execs[e].result.failed_tasks
                    <= Cardinality(TasksOf(execs[e].wf))
            /\ execs[e].strategy # "fail_fast" =>
                   execs[e].result.completed_tasks + execs[e].result.failed_tasks
                       = Cardinality(TasksOf(execs[e].wf))

(***************************************************************************)
(* One execution of either workflow, in every mode and under every         *)
(* strategy, after health checks that may have taken services offline (a   *)
(* task whose only compatible service is offline gets no queue entry).     *)
(***************************************************************************)
NextOutcome ==
    \/ \E id \in ServiceIds, answer \in {"ok", "none"} : HealthCheck(id, answer)
    \/ \E w \in DOMAIN workflows, m \in ExecutionMode, r \in RecoveryStrategy :
          ExecBegin(1, w, m, r)
    \/ \E t \in TaskIds : TaskStart(1, t)
    \/ \E t \in TaskIds, ok \in BOOLEAN : TaskResult(1, t, ok)
    \/ \E t \in TaskIds, ok \in BOOLEAN : TaskAltResult(1, t, ok)
    \/ GroupDone(1)

SpecOutcome == InitConcurrent /\ [][NextOutcome]_vars

NextLifecycle ==
    \/ \E w \in DOMAIN workflows : ScheduleWorkflow(w, "priority") /\ Len(queue') <= QueueCap
    \/ ExecBegin(1, 1, "sequential", "continue")
    \/ \E t \in TaskIds : TaskStart(1, t)
    \/ \E t \in TaskIds, ok \in BOOLEAN : TaskResult(1, t, ok)
    \/ GroupDone(1)
    \/ ExecReturn(1)
    \/ \E w \in DOMAIN workflows : CancelWorkflowExecution(w)
    \/ pause_workflow(1)
    \/ resume_workflow(1)
    \/ stop_workflow(1)

SpecLifecycle == InitConcurrent /\ [][NextLifecycle]_vars

\* The changes of status of the state machine of a workflow.
WorkflowTransitions ==
    {<<"pending", "scheduled">>, <<"scheduled", "running">>,
     <<"running", "paused">>, <<"paused", "running">>}
    \cup {<<"running", st>> : st \in {"completed", "failed", "cancelled", "stopped"}}

\* C16: the status of a workflow changes only along pending -> scheduled ->
\* running -> {completed, failed, cancelled, stopped} and running <-> paused:
\* it never goes from running back to scheduled, is never paused from a
\* status other than running, and never leaves a terminal status.
C16_StatusTransitions ==
    [][\A w \in DOMAIN workflows :
          workflows'[w].status # workflows[w].status
              => <<workflows[w].status, workflows'[w].status>> \in WorkflowTransitions]_vars

\* A step that cancels workflow w: its status becomes cancelled, or one of
\* its entries does.
CancelStep(w) ==
    \/ workflows[w].status # "cancelled" /\ workflows'[w].status = "cancelled"
    \/ \E i \in 1..Len(queue) : /\ queue[i].workflow_id = w
                                 /\ queue[i].status # "cancelled"
                                 /\ queue'[i].status = "cancelled"

\* C17: a cancel request for workflow w turns exactly the pending entries of
\* w to cancelled and the status of w to cancelled; the entries in any other
\* status (the running ones in particular), the entries of the other
\* workflows, the other workflows and the loads and statuses of all services
\* are left as they are.
C17_CancelFrame ==
    [][\A w \in DOMAIN workflows :
          CancelStep(w) =>
              /\ Len(queue') = Len(queue)
              /\ \A i \in 1..Len(queue) :
                    queue'[i] = IF queue[i].workflow_id = w /\ queue[i].status = "pending"
                                THEN [queue[i] EXCEPT !.status = "cancelled"]
                                ELSE queue[i]
              /\ workflows'[w].status = "cancelled"
              /\ \A v \in DOMAIN workflows \ {w} : workflows'[v] = workflows[v]
              /\ services' = services
              /\ tasks' = tasks /\ execs' = execs]_vars

\* C17 witness: workflow 1 is cancelled while the entry of its first task is
\* running; the pending entry of its second task has become cancelled, the
\* running one is still running and the entry of workflow 2 is still pending.
C17_Witness ==
    /\ workflows[1].status = "cancelled"
    /\ \E i, j, k \in 1..Len(queue) :
          /\ queue[i].workflow_id = 1 /\ queue[i].status = "running"
          /\ queue[j].workflow_id = 1 /\ queue[j].status = "cancelled"
          /\ queue[k].workflow_id = 2 /\ queue[k].status = "pending"

(***************************************************************************)
(* Cancellation against execution alone: ExecuteWorkflow calls for         *)
(* workflow 1 (which schedule it lazily) and cancel requests for it.       *)
(***************************************************************************)
NextCancel ==
    \/ \E m \in {"sequential", "parallel"} : ExecBegin(1, 1, m, "continue")
    \/ \E t \in TaskIds : TaskStart(1, t)
    \/ \E t \in TaskIds, ok \in BOOLEAN : TaskResult(1, t, ok)
    \/ GroupDone(1)
    \/ ExecReturn(1)
    \/ CancelWorkflowExecution(1)

SpecCancel == InitConcurrent /\ [][NextCancel]_vars

\* C18: after a cancel request the workflow makes no further progress: a
\* cancelled entry stays cancelled (it is never set running, so its service
\* is never invoked for it) and the workflow stays cancelled, also with an
\* ExecuteWorkflow call in flight or issued afterwards.
C18_NoProgressAfterCancel ==
    [][/\ \A i \in 1..Len(queue) :
             queue[i].status = "cancelled" => queue'[i].status = "cancelled"
       /\ \A w \in DOMAIN workflows :
             workflows[w].status = "cancelled" => workflows'[w].status = "cancelled"]_vars

(***************************************************************************)
(* Sequential execution.                                                   *)
(***************************************************************************)
\* The tasks the call of executor e has attempted: those whose entry it has
\* set running and those it has reported (a task without entry fails unstarted).
Attempted(e) == execs[e].started \cup execs[e].finished

\* C19: in sequential mode a task is attempted only when every task of lower
\* order_index has finished and no task of higher order_index has been
\* attempted; under fail-fast no task is attempted once a task has failed;
\* under the other strategies every task has been attempted when the call returns.
C19_SequentialInOrder ==
    [][\A e \in Executors :
          execs'[e].mode = "sequential" =>
              /\ \A t \in (execs'[e].started \cup execs'[e].finished) \ Attempted(e) :
                    /\ \A u \in TasksOf(execs[e].wf) :
                          /\ u < t => u \in execs[e].finished
                          /\ u > t => u \notin Attempted(e)
                    /\ execs[e].strategy = "fail_fast" => execs[e].failed = {}
              /\ (execs[e].pc = "running" /\ execs'[e].pc = "done"
                                           /\ execs[e].strategy # "fail_fast")
                    => execs'[e].finished = TasksOf(execs[e].wf)]_vars

\* C19 witness: a sequential run under a strategy other than fail-fast has
\* returned after it went on past a failed task to a task that completed.
C19_Witness ==
    \E e \in Executors, t, u \in TaskIds :
        /\ execs[e].mode = "sequential" /\ execs[e].strategy # "fail_fast"
        /\ Returned(e)
        /\ t < u /\ t \in execs[e].failed /\ u \in execs[e].completed
        /\ execs[e].finished = TasksOf(execs[e].wf)

(***************************************************************************)
(* Schedule requests for both workflows, between health checks that take   *)
(* the services offline and back: with service 1 offline the sample        *)
(* preparation of workflow 1 cannot be scheduled while its HPLC analysis   *)
(* can.  The requests use the default strategy; SpecQueue has the others.  *)
(***************************************************************************)
NextSchedule ==
    \/ \E w \in DOMAIN workflows :
          ScheduleWorkflow(w, "priority") /\ Len(queue') <= QueueCap
    \/ \E id \in ServiceIds, answer \in {"ok", "none"} : HealthCheck(id, answer)

SpecSchedule == InitConcurrent /\ [][NextSchedule]_vars

\* Task t can be scheduled: a service that is online and under capacity is
\* compatible with it.
Schedulable(t) == \E id \in CompatibleServices(t) : is_available(services[id])

\* The entries of task t that the step adds to the queue.
NewEntries(t) == {i \in (Len(queue) + 1)..Len(queue') : queue'[i].task_id = t}

\* C20: a schedule request schedules every task of the workflow that can be
\* scheduled, whatever tasks before it could not (one new pending entry for
\* each, none for the others), and its result has scheduled_tasks +
\* failed_tasks = number of tasks, one error per task not scheduled, and
\* success exactly when failed_tasks = 0.
C20_PartialScheduling ==
    [][(scheduleOut' # scheduleOut \/ Len(queue') # Len(queue)) =>
          LET r == scheduleOut'
              all == TasksOf(r.workflow_id)
          IN /\ r.scheduled_tasks + r.failed_tasks = Cardinality(all)
             /\ r.failed_tasks = Cardinality({t \in all : ~Schedulable(t)})
             /\ r.errors = r.failed_tasks
             /\ r.success <=> r.failed_tasks = 0
             /\ Len(queue') = Len(queue) + r.scheduled_tasks
             /\ \A t \in all :
                   /\ Cardinality(NewEntries(t)) = IF Schedulable(t) THEN 1 ELSE 0
                   /\ \A i \in NewEntries(t) : queue'[i].status = "pending"
             /\ \A t \in TaskIds \ all : NewEntries(t) = {}]_vars

\* C20 witness: a schedule request has returned a partial failure: the
\* first task of the workflow could not be scheduled, a later one was.
C20_Witness ==
    /\ scheduleOut # <<>>
    /\ scheduleOut.scheduled_tasks > 0 /\ scheduleOut.failed_tasks > 0
    /\ ~scheduleOut.success
    /\ \E i \in 1..Len(queue) : queue[i].task_id = 2 /\ queue[i].workflow_id = 1
    /\ \A i \in 1..Len(queue) : queue[i].task_id # 1

(***************************************************************************)
(* Scenario A: workflow 1 holds "Sample Preparation" and "HPLC Analysis";  *)
(* one service has exactly the capabilities balance and pipette, the other *)
(* exactly hplc and uv_detector (either may have the lower id), each with  *)
(* a capacity of 1 or 2 and a load below it.  Schedule requests in the     *)
(* priority strategy, between health checks.                               *)
(***************************************************************************)
ExactCapabilities == <<{"balance", "pipette"}, {"hplc", "uv_detector"}>>

InitScenarioA ==
    /\ workflows = [w \in {1, 2} |-> [status |-> "pending"]]
    /\ tasks = [t \in TaskIds |-> [workflow_id |-> IF t <= Len(TaskNames) THEN 1 ELSE 2,
                                   name |-> NameOf(t),
                                   status |-> "pending", deadline |-> "none"]]
    /\ deps = {}
    /\ \E swap \in BOOLEAN :
       \E cap \in [ServiceIds -> 1..2] :
       \E load \in {l \in [ServiceIds -> 0..1] : \A i \in ServiceIds : l[i] < cap[i]} :
          services = [i \in ServiceIds |->
              [status |-> "online", current_load |-> load[i],
               max_concurrent_tasks |-> cap[i],
               capabilities |->
                  IF i > Len(ExactCapabilities) THEN {}
                  ELSE IF swap THEN ExactCapabilities[Len(ExactCapabilities) + 1 - i]
                       ELSE ExactCapabilities[i]]]
    /\ queue = <<>>
    /\ results = {}
    /\ execs = [e \in Executors |-> IdleExec]
    /\ levelsOut = <<>>
    /\ scheduleOut = <<>>
    /\ InitObjects

NextScenarioA ==
    \/ ScheduleWorkflow(1, "priority") /\ Len(queue') <= QueueCap
    \/ \E id \in ServiceIds, answer \in {"ok", "none"} : HealthCheck(id, answer)

SpecScenarioA == InitScenarioA /\ [][NextScenarioA]_vars

\* C21: a schedule request in the priority strategy for the workflow of
\* "Sample Preparation" and "HPLC Analysis", made while the two services
\* that exactly match the required capabilities are online, returns
\* scheduled_tasks = 2 and failed_tasks = 0 and assigns the two tasks to
\* different services.
C21_ScenarioA ==
    [][((scheduleOut' # scheduleOut \/ Len(queue') # Len(queue))
          /\ \A id \in 1..Len(ExactCapabilities) : services[id].status = "online")
        => /\ scheduleOut'.scheduled_tasks = 2
           /\ scheduleOut'.failed_tasks = 0
           /\ Len(queue') = Len(queue) + 2
           /\ \A i, j \in (Len(queue) + 1)..Len(queue') :
                 queue'[i].task_id # queue'[j].task_id
                    => queue'[i].assigned_service_id # queue'[j].assigned_service_id
           /\ \A i \in (Len(queue) + 1)..Len(queue') :
                 services[queue'[i].assigned_service_id].capabilities
                     = build_task_requirements(tasks[queue'[i].task_id]).required]_vars

\* C21 witness: the request of scenario A has returned with both tasks
\* scheduled, on the two services.
C21_Witness ==
    /\ scheduleOut # <<>>
    /\ scheduleOut.scheduled_tasks = 2 /\ scheduleOut.failed_tasks = 0
    /\ Len(queue) = 2
    /\ queue[1].task_id = 1 /\ queue[2].task_id = 2
    /\ queue[1].assigned_service_id # queue[2].assigned_service_id

(***************************************************************************)
(* Service selection (core/service_registry.py): load_balance_selection    *)
(* calls on one ServiceRegistry object, the candidates passed in any       *)
(* order, the services and their load constant.                            *)
(***************************************************************************)
MaxSelections == 4    \* load_balance_selection calls made on the registry

\* The lists that hold the services of S once each.
Orders(S) == {o \in [1..Cardinality(S) -> S] : Range(o) = S}

\* _round_robin_selection(services): the counter of the key
\* tuple(sorted(ids)) is created at 0 if absent, index = counter % len,
\* the counter is incremented, services[index] of the list as passed is
\* returned (Python indexes from 0).
round_robin_selection(counters, svcs) ==
    LET service_key == Range(svcs)
        counter == IF service_key \in DOMAIN counters THEN counters[service_key] ELSE 0
        index == counter % Len(svcs)
    IN [counters |-> [key \in DOMAIN counters \cup {service_key} |->
                         IF key = service_key THEN counter + 1 ELSE counters[key]],
        returned |-> svcs[index + 1]]

\* load_balance_selection(candidates, ROUND_ROBIN): the candidates that are
\* not available are dropped; None (no selection recorded) if none is left.
LoadBalanceRoundRobin(candidates) ==
    /\ Len(selections) < MaxSelections
    /\ \E available \in {SelectSeq(candidates, LAMBDA i : is_available(services[i]))} :
          /\ Len(available) > 0
          /\ \E r \in {round_robin_selection(round_robin_counters, available)} :
                /\ round_robin_counters' = r.counters
                /\ selections' = Append(selections, [strategy |-> "round_robin",
                                                 services |-> available,
                                                 returned |-> r.returned])
    /\ UNCHANGED <<workflows, tasks, deps, services, queue, results, execs,
                   levelsOut, scheduleOut, identity_map, matchOut, batch, preferences, celery, elapsed_time>>

NextRoundRobin ==
    \E S \in SUBSET ServiceIds \ {{}} : \E candidates \in Orders(S) :
        LoadBalanceRoundRobin(candidates)

SpecRoundRobin == InitConcurrent /\ [][NextRoundRobin]_vars

\* The round-robin selections made over the candidate set K, in call order.
RoundRobinCalls(K) ==
    SelectSeq(selections, LAMBDA c : c.strategy = "round_robin" /\ Range(c.services) = K)

\* C22: the first N round-robin selections over a candidate set of size N
\* return every candidate exactly once, whatever the order the candidates
\* are passed in and whatever selections over other sets come in between.
C22_RoundRobinEachOnce ==
    \A K \in SUBSET ServiceIds \ {{}} :
        LET calls == RoundRobinCalls(K)
            N == Cardinality(K)
        IN Len(calls) >= N => {calls[i].returned : i \in 1..N} = K

\* Lemma: the rotation does hold when the candidates of a set are passed in
\* the same order on every call, selections over other sets in between.
RoundRobinInSameOrder ==
    \A K \in SUBSET ServiceIds \ {{}} :
        LET calls == RoundRobinCalls(K)
            N == Cardinality(K)
        IN (Len(calls) >= N /\ \A i \in 1..N : calls[i].services = calls[1].services)
              => {calls[i].returned : i \in 1..N} = K

(***************************************************************************)
(* Load updates through the callers' Sessions.  Every caller has its own   *)
(* Session (get_db, SessionLocal with expire_on_commit left on).  A commit *)
(* expires the rows the Session holds; the next attribute access loads the *)
(* row again; a query for a row the Session holds loaded returns the       *)
(* object as loaded.  The engine commits (workflow_engine.py:491), reads   *)
(* service.type (568), awaits the service, then calls update_service_load  *)
(* (510); the load endpoint calls it on a new Session.                     *)
(***************************************************************************)
\* The Session of caller e loads the row of service id.
SessionLoad(e, id) ==
    /\ identity_map[e][id] = <<>>
    /\ identity_map' = [identity_map EXCEPT ![e][id] = services[id]]
    /\ UNCHANGED <<workflows, tasks, deps, services, queue, results, execs, levelsOut,
                   scheduleOut, round_robin_counters, selections, matchOut, batch, preferences, celery, elapsed_time>>

\* update_service_load(id, load_change) through the Session of caller e:
\* the new load and status are computed from the row as the Session holds
\* it, the commit writes the columns whose value has changed and expires
\* the rows of the Session.
SessionUpdateLoad(e, id, load_change) ==
    /\ \E loaded \in {IF identity_map[e][id] = <<>> THEN services[id]
                      ELSE identity_map[e][id]} :
       \E row \in {update_service_load([services EXCEPT ![id] = loaded], id, load_change)[id]} :
          services' = [services EXCEPT
              ![id].current_load = IF row.current_load # loaded.current_load
                                   THEN row.current_load ELSE @,
              ![id].status = IF row.status # loaded.status THEN row.status ELSE @]
    /\ identity_map' = [identity_map EXCEPT ![e] = [i \in ServiceIds |-> <<>>]]
    /\ UNCHANGED <<workflows, tasks, deps, queue, results, execs, levelsOut,
                   scheduleOut, round_robin_counters, selections, matchOut, batch, preferences, celery, elapsed_time>>

\* The engine loads the row of the service of a task and decrements its
\* load when the task has completed; the load endpoint increments or
\* decrements on a Session that holds no row.
NextSessions ==
    \/ \E e \in Executors, id \in ServiceIds : SessionLoad(e, id)
    \/ \E e \in Executors, id \in ServiceIds, load_change \in {-1, 1} :
          /\ identity_map[e][id] # <<>> => load_change = -1
          /\ SessionUpdateLoad(e, id, load_change)
          /\ services'[id].current_load <= MaxLoad

SpecSessions == InitConcurrent /\ [][NextSessions]_vars

\* C23: every load update sets the load of the service to
\* max(0, current_load + delta), the current load being the one of the
\* service table when the update is made, and leaves the service busy
\* exactly when the new load has reached max_concurrent_tasks, whatever
\* other updates of the service came before it.
C23_UpdateLoadAtomic ==
    [][\A e \in Executors, id \in ServiceIds, load_change \in {-1, 1} :
          SessionUpdateLoad(e, id, load_change) =>
             /\ services'[id].current_load
                    = Max({0, services[id].current_load + load_change})
             /\ services'[id].status = "busy"
                    <=> services'[id].current_load >= services'[id].max_concurrent_tasks]_vars

\* Lemma: the update is as claimed when the caller's Session does not hold
\* the row loaded (the load endpoint, or an update right after a commit).
UpdateLoadOnNewSession ==
    [][\A e \in Executors, id \in ServiceIds, load_change \in {-1, 1} :
          (identity_map[e][id] = <<>> /\ SessionUpdateLoad(e, id, load_change)) =>
             /\ services'[id].current_load
                    = Max({0, services[id].current_load + load_change})
             /\ services'[id].status = "busy"
                    <=> services'[id].current_load >= services'[id].max_concurrent_tasks]_vars

\* The disagreement the updates of two Sessions can leave: a service that
\* is online at or above its capacity.
OnlineAtCapacity ==
    \E id \in ServiceIds :
        /\ services[id].status = "online"
        /\ services[id].current_load >= services[id].max_concurrent_tasks

(***************************************************************************)
(* The matcher as a function (core/capability_matcher.py): the score of a  *)
(* service for requirements drawn from the subsets of a few capabilities,  *)
(* the capabilities of service 1 drawn from the same subsets.              *)
(***************************************************************************)
MatchCapabilities == {"balance", "pipette", "stirring"}

InitMatch ==
    /\ workflows = [w \in {1, 2} |-> [status |-> "pending"]]
    /\ tasks = [t \in TaskIds |-> [workflow_id |-> IF t < NumTasks THEN 1 ELSE 2,
                                   name |-> NameOf(t),
                                   status |-> "pending", deadline |-> "none"]]
    /\ deps = {}
    /\ \E caps \in SUBSET MatchCapabilities :
          services = [InitServices EXCEPT ![1].capabilities = caps]
    /\ queue = <<>>
    /\ results = {}
    /\ execs = [e \in Executors |-> IdleExec]
    /\ levelsOut = <<>>
    /\ scheduleOut = <<>>
    /\ InitObjects

\* _calculate_match_score(service, requirements)
CalculateMatchScore(id, required, optional) ==
    /\ matchOut' = [service_id |-> id,
                    requirements |-> [required |-> required, optional |-> optional],
                    score |-> calculate_match_score(services[id].capabilities,
                                  [required |-> required, optional |-> optional])]
    /\ UNCHANGED <<workflows, tasks, deps, services, queue, results, execs, levelsOut,
                   scheduleOut, round_robin_counters, selections, identity_map, batch, preferences, celery, elapsed_time>>

NextMatch ==
    \E id \in ServiceIds, required \in SUBSET MatchCapabilities,
       optional \in SUBSET MatchCapabilities :
        CalculateMatchScore(id, required, optional)

SpecMatch == InitMatch /\ [][NextMatch]_vars

\* C24: when the required capabilities are a subset of the capabilities of
\* the service (the empty set included), the score has required_match_rate
\* 1.0 and a quality that is not incompatible.
C24_SubsetNeverIncompatible ==
    (matchOut # <<>>
       /\ matchOut.requirements.required \subseteq services[matchOut.service_id].capabilities)
    => /\ matchOut.score.required_match_rate[1] = matchOut.score.required_match_rate[2]
       /\ matchOut.score.quality # "incompatible"

\* C24 witness: a score for no required capability at all, and one optional
\* capability that the service does not have.
C24_Witness ==
    /\ matchOut # <<>>
    /\ matchOut.requirements.required = {}
    /\ matchOut.requirements.optional # {}
    /\ matchOut.requirements.optional \cap services[matchOut.service_id].capabilities = {}
    /\ matchOut.score.quality = "adequate"

\* C25: a second rebalancing run right after a rebalancing run, nothing
\* else in between, leaves every queue entry as the first run left it.
C25_RebalanceIdempotent ==
    [][RebalanceQueue => rebalance_queue(queue', tasks', services') = queue']_vars

\* Lemma: the second run leaves the assigned service of every entry, and
\* the whole entry unless it has waited more than an hour with a priority
\* above 1.
RebalanceAssignmentStable ==
    [][RebalanceQueue =>
          LET again == rebalance_queue(queue', tasks', services')
          IN \A i \in 1..Len(queue') :
                /\ again[i].assigned_service_id = queue'[i].assigned_service_id
                /\ (~queue'[i].waited_hour \/ queue'[i].priority = 1) => again[i] = queue'[i]]_vars

(***************************************************************************)
(* Batch execution (core/workflow_engine.py, batch_execute_workflows).     *)
(* The coroutine of the i-th ordered workflow is the execution i; it holds *)
(* the semaphore from its call of execute_workflow_optimized to its        *)
(* return.                                                                 *)
(***************************************************************************)
BatchStrategy == {"throughput", "priority", "fifo"}
MaxConcurrent == 2    \* max_concurrent of a batch request is 1..MaxConcurrent

\* The requests: two workflow ids each, of which id 3 is of no workflow.
BatchRequests == [1..2 -> 1..3]

\* _estimate_workflow_duration
estimate_workflow_duration(tsk, wid) ==
    Cardinality({t \in DOMAIN tsk : tsk[t].workflow_id = wid}) * 3600

RECURSIVE SortByKey(_, _)
\* sorted(list, key=...): stable, increasing.
SortByKey(list, key) ==
    IF Len(list) = 0 THEN <<>>
    ELSE LET least == Min({key[list[i]] : i \in 1..Len(list)})
             m == Min({i \in 1..Len(list) : key[list[i]] = least})
         IN <<list[m]>> \o SortByKey(SubSeq(list, 1, m - 1) \o SubSeq(list, m + 1, Len(list)), key)

\* _optimize_batch_execution_order.  The Workflow model has no metadata
\* column: w.metadata is the MetaData object of the declarative base, which
\* is true and has no get, so the key of the priority order raises
\* AttributeError.  created_at is the id.
optimize_batch_execution_order(existing, strategy, tsk) ==
    CASE strategy = "throughput" ->
            [raised |-> FALSE,
             ordered |-> SortByKey(existing,
                            [w \in Range(existing) |-> estimate_workflow_duration(tsk, w)])]
      [] strategy = "priority" -> [raised |-> TRUE, ordered |-> <<>>]
      [] OTHER ->
            [raised |-> FALSE,
             ordered |-> SortByKey(existing, [w \in Range(existing) |-> w])]

\* The BatchResult without the results of the executions that raised.
BatchResultDropExceptions(workflow_ids, ordered, gathered) ==
    LET workflow_results == SelectSeq(gathered, LAMBDA r : r.kind = "result")
    IN [total_workflows |-> Len(workflow_ids),
        successful_workflows |->
            Cardinality({i \in 1..Len(workflow_results) : workflow_results[i].success}),
        failed_workflows |->
            Cardinality({i \in 1..Len(workflow_results) : ~workflow_results[i].success}),
        workflow_results |-> workflow_results]

\* The BatchResult built from what gather returned: an exception becomes a
\* failed ExecutionResult of the workflow.
BatchResult(workflow_ids, ordered, gathered) ==
    LET workflow_results ==
            [i \in 1..Len(ordered) |->
                IF gathered[i].kind = "exception"
                THEN [kind |-> "result", workflow_id |-> ordered[i], success |-> FALSE,
                      completed_tasks |-> 0, failed_tasks |-> 0]
                ELSE gathered[i]]
    IN [total_workflows |-> Len(workflow_ids),
        successful_workflows |->
            Cardinality({i \in 1..Len(workflow_results) : workflow_results[i].success}),
        failed_workflows |->
            Cardinality({i \in 1..Len(workflow_results) : ~workflow_results[i].success}),
        workflow_results |-> workflow_results]

\* batch_execute_workflows, up to gather: ValueError when a row is missing
\* (the number of rows found differs from the number of ids), the
\* exception of the ordering, else one coroutine per ordered workflow.
BatchBegin(workflow_ids, strategy, max_concurrent) ==
    /\ batch.pc = "idle"
    /\ \E existing \in {SortedSeq(Range(workflow_ids) \cap DOMAIN workflows)} :
          IF Len(existing) # Len(workflow_ids)
          THEN batch' = [IdleBatch EXCEPT !.pc = "raised", !.workflow_ids = workflow_ids,
                            !.optimization_strategy = strategy,
                            !.max_concurrent = max_concurrent]
          ELSE \E o \in {optimize_batch_execution_order(existing, strategy, tasks)} :
                  batch' = [IdleBatch EXCEPT
                      !.pc = IF o.raised THEN "raised" ELSE "gathering",
                      !.workflow_ids = workflow_ids,
                      !.optimization_strategy = strategy,
                      !.max_concurrent = max_concurrent,
                      !.ordered = o.ordered,
                      !.results = [i \in 1..Len(o.ordered) |-> [kind |-> "pending"]]]
    /\ UNCHANGED <<workflows, tasks, deps, services, queue, results, execs, levelsOut,
                   scheduleOut, round_robin_counters, selections, identity_map, matchOut,
                   preferences, celery, elapsed_time>>

\* The coroutines that hold the semaphore.
Holding == {i \in DOMAIN batch.ordered : execs[i].pc # "idle"}

\* Coroutine i acquires the semaphore (the waiters are served in the order
\* of their calls, which is the order of the list) and calls
\* execute_workflow_optimized with the defaults of the engine.
BatchAcquire(i) ==
    /\ batch.pc = "gathering"
    /\ i \in DOMAIN batch.ordered
    /\ batch.results[i].kind = "pending"
    /\ \A j \in 1..(i - 1) : execs[j].pc # "idle" \/ batch.results[j].kind # "pending"
    /\ Cardinality(Holding) < batch.max_concurrent
    /\ ExecBegin(i, batch.ordered[i], "optimized", "fallback")

\* execute_workflow_optimized of coroutine i has returned: the semaphore is
\* released, gather has the ExecutionResult.
BatchRelease(i) ==
    /\ batch.pc = "gathering"
    /\ i \in DOMAIN batch.ordered
    /\ execs[i].pc = "done"
    /\ batch' = [batch EXCEPT !.results[i] =
                    [kind |-> "result", workflow_id |-> execs[i].wf,
                     success |-> execs[i].result.success,
                     completed_tasks |-> execs[i].result.completed_tasks,
                     failed_tasks |-> execs[i].result.failed_tasks]]
    /\ execs' = [execs EXCEPT ![i] = IdleExec]
    /\ UNCHANGED <<workflows, tasks, deps, services, queue, results, levelsOut,
                   scheduleOut, round_robin_counters, selections, identity_map, matchOut,
                   preferences, celery, elapsed_time>>

\* Coroutine i ends with an exception (one raised in the except block of
\* execute_workflow_optimized, where the query and the commit are not
\* guarded): the semaphore is released, gather has the exception.
BatchRaise(i) ==
    /\ batch.pc = "gathering"
    /\ i \in DOMAIN batch.ordered
    /\ execs[i].pc = "running"
    /\ batch' = [batch EXCEPT !.results[i] = [kind |-> "exception"]]
    /\ execs' = [execs EXCEPT ![i] = IdleExec]
    /\ UNCHANGED <<workflows, tasks, deps, services, queue, results, levelsOut,
                   scheduleOut, round_robin_counters, selections, identity_map, matchOut,
                   preferences, celery, elapsed_time>>

\* gather has every result: the BatchResult is built and returned.
BatchReturn ==
    /\ batch.pc = "gathering"
    /\ \A i \in DOMAIN batch.ordered : batch.results[i].kind # "pending"
    /\ batch' = [batch EXCEPT !.pc = "returned",
                    !.result = BatchResult(batch.workflow_ids, batch.ordered, batch.results)]
    /\ UNCHANGED <<workflows, tasks, deps, services, queue, results, execs, levelsOut,
                   scheduleOut, round_robin_counters, selections, identity_map, matchOut,
                   preferences, celery, elapsed_time>>

NextBatch ==
    \/ \E workflow_ids \in BatchRequests, s \in BatchStrategy, n \in 1..MaxConcurrent :
          BatchBegin(workflow_ids, s, n)
    \/ \E i \in Executors : BatchAcquire(i)
    \/ \E e \in Executors, t \in TaskIds : TaskStart(e, t)
    \/ \E e \in Executors, t \in TaskIds, ok \in BOOLEAN : TaskResult(e, t, ok)
    \/ \E e \in Executors, t \in TaskIds, ok \in BOOLEAN : TaskAltResult(e, t, ok)
    \/ \E e \in Executors : GroupDone(e)
    \/ \E i \in Executors : BatchRelease(i)
    \/ \E i \in Executors : BatchRaise(i)
    \/ BatchReturn

SpecBatch == InitConcurrent /\ [][NextBatch]_vars

\* Every service call is answered or times out, and the event loop runs
\* every coroutine that can run.
SpecBatchFair == SpecBatch /\ WF_vars(NextBatch)

\* Workflow w of the batch has been executed or is being executed.
Executed(w) ==
    \E i \in DOMAIN batch.ordered :
        /\ batch.ordered[i] = w
        /\ execs[i].pc # "idle" \/ batch.results[i].kind # "pending"

\* The request names workflows that exist, each once.
ValidRequest ==
    /\ batch.pc # "idle"
    /\ Range(batch.workflow_ids) \subseteq DOMAIN workflows
    /\ Cardinality(Range(batch.workflow_ids)) = Len(batch.workflow_ids)

\* C26: at no time do more than max_concurrent workflows of the batch
\* execute, and every workflow of a batch (of existing workflows, each named
\* once) is eventually executed, whatever the ordering and max_concurrent.
C26_BoundedAndAllExecuted ==
    /\ [](Cardinality(Holding) <= batch.max_concurrent)
    /\ [](ValidRequest => <>(\A w \in Range(batch.workflow_ids) : Executed(w)))

\* Lemma: C26 for the orderings other than priority.
BoundedAndAllExecutedUnlessPriority ==
    /\ [](Cardinality(Holding) <= batch.max_concurrent)
    /\ []((ValidRequest /\ batch.optimization_strategy # "priority")
             => <>(\A w \in Range(batch.workflow_ids) : Executed(w)))

\* C27: a batch is not aborted by a workflow that fails or raises.  It
\* raises only before any of its workflows is executed; once the executions
\* are gathered it returns one ExecutionResult per requested workflow, a
\* failed one for an execution that raised, and
\* successful_workflows + failed_workflows = total_workflows.
C27_OneResultPerWorkflow ==
    /\ batch.pc = "raised" =>
          /\ \A e \in Executors : execs[e].pc = "idle"
          /\ \A w \in DOMAIN workflows : workflows[w].status = "pending"
    /\ batch.pc = "returned" =>
          LET r == batch.result
          IN /\ r.total_workflows = Len(batch.workflow_ids)
             /\ Len(r.workflow_results) = r.total_workflows
             /\ \A w \in Range(batch.workflow_ids) :
                   Cardinality({i \in 1..Len(r.workflow_results) :
                                   r.workflow_results[i].workflow_id = w}) = 1
             /\ \A i \in DOMAIN batch.results :
                   batch.results[i].kind = "exception" =>
                      /\ r.workflow_results[i].workflow_id = batch.ordered[i]
                      /\ ~r.workflow_results[i].success
             /\ r.successful_workflows + r.failed_workflows = r.total_workflows

\* C27 witness: a batch has returned, one of its executions having raised
\* and the other one having succeeded.
C27_Witness ==
    /\ batch.pc = "returned"
    /\ \E i \in DOMAIN batch.results : batch.results[i].kind = "exception"
    /\ batch.result.successful_workflows = 1
    /\ batch.result.failed_workflows = 1

(***************************************************************************)
(* Execution requests for a workflow that does not exist (id 3) and for    *)
(* one without tasks (workflow 2), beside sequential executions of         *)
(* workflow 1, which holds every task.                                     *)
(***************************************************************************)
InitNoTasks ==
    /\ workflows = [w \in {1, 2} |-> [status |-> "pending"]]
    /\ tasks = [t \in TaskIds |-> [workflow_id |-> 1, name |-> NameOf(t),
                                   status |-> "pending", deadline |-> "none"]]
    /\ deps = {}
    /\ services = InitServices
    /\ queue = <<>>
    /\ results = {}
    /\ execs = [e \in Executors |-> IdleExec]
    /\ levelsOut = <<>>
    /\ scheduleOut = <<>>
    /\ InitObjects

NextNoTasks ==
    \/ \E w \in 1..3, r \in {"retry", "continue"} : ExecBegin(1, w, "sequential", r)
    \/ \E e \in Executors \ {1}, w \in 2..3 : ExecBegin(e, w, "optimized", "fallback")
    \/ \E e \in Executors, t \in TaskIds : TaskStart(e, t)
    \/ \E e \in Executors, t \in TaskIds, ok \in BOOLEAN : TaskResult(e, t, ok)
    \/ \E e \in Executors : GroupDone(e)
    \/ \E e \in Executors : ExecReturn(e)

SpecNoTasks == InitNoTasks /\ [][NextNoTasks]_vars

\* The workflow of the call of executor e does not exist or has no tasks.
NothingToExecute(x) == x.wf \notin DOMAIN workflows \/ TasksOf(x.wf) = {}

\* C28: a call for a workflow that does not exist or has no tasks is done
\* at once, with a failed ExecutionResult that carries an error; it creates
\* no queue entry, calls no service and handles no failure (no retry, no
\* fallback), at the call and until it has returned.
C28_NothingToExecuteFailsAtOnce ==
    [][\A e \in Executors :
          /\ (execs[e].pc = "idle" /\ execs'[e].pc # "idle" /\ NothingToExecute(execs'[e])) =>
                /\ execs'[e].pc = "done"
                /\ ~execs'[e].result.success
                /\ execs'[e].result.errors > 0
                /\ execs'[e].result.completed_tasks = 0
                /\ queue' = queue /\ services' = services /\ tasks' = tasks
                /\ execs'[e].started = {}
                /\ \A t \in TaskIds : /\ execs'[e].sv[t] = 0
                                      /\ execs'[e].recovery[t] = NoRecovery
          /\ (execs[e].pc = "done" /\ NothingToExecute(execs[e])) =>
                execs'[e] \in {execs[e], IdleExec}]_vars

\* C28 witness: one call has failed for the workflow that does not exist,
\* another one for the workflow without tasks.
C28_Witness ==
    \E e1, e2 \in Executors :
        /\ execs[e1].pc = "done" /\ execs[e1].wf \notin DOMAIN workflows
        /\ execs[e2].pc = "done" /\ execs[e2].wf \in DOMAIN workflows
        /\ TasksOf(execs[e2].wf) = {}
        /\ ~execs[e2].result.success

(***************************************************************************)
(* Unregistration (api/v1/enhanced_services.py, DELETE                     *)
(* /api/v2/services/{id}) beside the scheduling of workflow 1, the         *)
(* rebalancing, health checks of service 1 and one sequential execution    *)
(* of workflow 1 with fallback.  No task has requirements, so every        *)
(* service is compatible with every task.                                  *)
(***************************************************************************)
\* A count that leaves out the running entries.
pending_tasksPendingOnly(q, service_id) ==
    Cardinality({i \in 1..Len(q) : /\ q[i].assigned_service_id = service_id
                                   /\ q[i].status = "pending"})

\* pending_tasks of unregister_service: the number of pending and running
\* entries assigned to the service.
pending_tasks(q, service_id) ==
    Cardinality({i \in 1..Len(q) : /\ q[i].assigned_service_id = service_id
                                   /\ q[i].status \in {"pending", "running"}})

\* unregister_service: 404 for no such service, 409 when the service has
\* pending or running entries, else the row is deleted.
UnregisterService(service_id) ==
    /\ service_id \in DOMAIN services
    /\ services' = IF pending_tasks(queue, service_id) > 0 THEN services
                   ELSE [id \in DOMAIN services \ {service_id} |-> services[id]]
    /\ UNCHANGED <<workflows, tasks, deps, objectVars, queue, results, execs, levelsOut,
                   scheduleOut>>

InitUnregister ==
    /\ workflows = [w \in {1, 2} |-> [status |-> "pending"]]
    /\ tasks = [t \in TaskIds |-> [workflow_id |-> IF t < NumTasks THEN 1 ELSE 2,
                                   name |-> {},
                                   status |-> "pending", deadline |-> "none"]]
    /\ deps = {}
    /\ services = InitServices
    /\ queue = <<>>
    /\ results = {}
    /\ execs = [e \in Executors |-> IdleExec]
    /\ levelsOut = <<>>
    /\ scheduleOut = <<>>
    /\ InitObjects

NextUnregister ==
    \/ \E id \in ServiceIds : UnregisterService(id)
    \/ ScheduleWorkflow(1, "priority") /\ Len(queue') <= QueueCap
    \/ RebalanceQueue
    \/ \E answer \in {"ok", "none"} : HealthCheck(1, answer)
    \/ ExecBegin(1, 1, "sequential", "fallback")
    \/ \E t \in TaskIds : TaskStart(1, t)
    \/ \E t \in TaskIds, ok \in BOOLEAN : TaskResult(1, t, ok)
    \/ \E t \in TaskIds, ok \in BOOLEAN : TaskAltResult(1, t, ok)
    \/ GroupDone(1)

SpecUnregister == InitUnregister /\ [][NextUnregister]_vars

\* C29: a service row is deleted only in a state where no pending or
\* running queue entry is assigned to it, and no pending or running entry is
\* ever assigned to a service that has been deleted.
C29_NoEntryOnRemovedService ==
    /\ [][\A id \in DOMAIN services :
             id \notin DOMAIN services' =>
                \A i \in 1..Len(queue) :
                    queue[i].assigned_service_id = id
                        => queue[i].status \notin {"pending", "running"}]_vars
    /\ [](\A i \in 1..Len(queue) :
             queue[i].status \in {"pending", "running"}
                 => queue[i].assigned_service_id \in DOMAIN services)

\* C29 witness: a service has been deleted that entries are assigned to
\* (none of them pending or running), while another entry is running on a
\* service that is still registered.
C29_Witness ==
    /\ \E i \in 1..Len(queue) : queue[i].assigned_service_id \notin DOMAIN services
    /\ \E i \in 1..Len(queue) : /\ queue[i].status = "running"
                                /\ queue[i].assigned_service_id \in DOMAIN services

(***************************************************************************)
(* Selection with the user-preference strategy: the user has no            *)
(* preference row, or one with an ordered list of preferred services and a *)
(* set of blacklisted ones; the services have a load of 0 or 1 of 2, and   *)
(* service 2 may be offline.                                               *)
(***************************************************************************)
\* The preference rows: the preferred ids in any order, without repetition.
PreferenceRows ==
    {[exists |-> FALSE, preferred_service_ids |-> <<>>, blacklisted_service_ids |-> {}]}
    \cup {[exists |-> TRUE, preferred_service_ids |-> p, blacklisted_service_ids |-> b] :
             p \in UNION {Orders(S) : S \in SUBSET ServiceIds}, b \in SUBSET ServiceIds}

InitPreference ==
    /\ workflows = [w \in {1, 2} |-> [status |-> "pending"]]
    /\ tasks = [t \in TaskIds |-> [workflow_id |-> IF t < NumTasks THEN 1 ELSE 2,
                                   name |-> NameOf(t),
                                   status |-> "pending", deadline |-> "none"]]
    /\ deps = {}
    /\ \E load \in [ServiceIds -> 0..1], status \in {"online", "offline"} :
          services = [id \in ServiceIds |->
              [InitServices[id] EXCEPT !.current_load = load[id],
                                       !.max_concurrent_tasks = 2,
                                       !.status = IF id = 2 THEN status ELSE "online"]]
    /\ queue = <<>>
    /\ results = {}
    /\ execs = [e \in Executors |-> IdleExec]
    /\ levelsOut = <<>>
    /\ scheduleOut = <<>>
    /\ round_robin_counters = [key \in {} |-> 0]
    /\ selections = <<>>
    /\ identity_map = [e \in Executors |-> [id \in ServiceIds |-> <<>>]]
    /\ matchOut = <<>>
    /\ batch = IdleBatch
    /\ preferences \in PreferenceRows
    /\ celery = IdleCelery
    /\ elapsed_time = [t \in TaskIds |-> <<0, 0>>]

\* The first id of the list that is in the set S, 0 if there is none.
FirstIn(list, S) ==
    IF \E i \in 1..Len(list) : list[i] \in S
    THEN list[Min({i \in 1..Len(list) : list[i] \in S})]
    ELSE 0

\* _user_preference_selection(services, task_context): services[0] without
\* a user_id in the context; else the first preferred id that is among the
\* services; else the least loaded one.  blacklisted_service_ids is not read.
user_preference_selection(svcs, cand, has_user, row) ==
    IF ~has_user THEN cand[1]
    ELSE IF row.exists /\ Len(row.preferred_service_ids) > 0
            /\ FirstIn(row.preferred_service_ids, Range(cand)) # 0
    THEN FirstIn(row.preferred_service_ids, Range(cand))
    ELSE FirstMinLoad(svcs, cand)

\* load_balance_selection(candidates, USER_PREFERENCE, task_context)
LoadBalanceUserPreference(candidates, has_user) ==
    /\ Len(selections) < MaxSelections
    /\ \E available \in {SelectSeq(candidates, LAMBDA i : is_available(services[i]))} :
          /\ Len(available) > 0
          /\ selections' = Append(selections,
                [strategy |-> "user_preference", services |-> available,
                 has_user |-> has_user,
                 returned |-> user_preference_selection(services, available, has_user,
                                                        preferences)])
    /\ UNCHANGED <<workflows, tasks, deps, services, queue, results, execs, levelsOut,
                   scheduleOut, round_robin_counters, identity_map, matchOut, batch,
                   preferences, celery, elapsed_time>>

NextPreference ==
    \E S \in SUBSET ServiceIds \ {{}} : \E candidates \in Orders(S), has_user \in BOOLEAN :
        LoadBalanceUserPreference(candidates, has_user)

SpecPreference == InitPreference /\ [][NextPreference]_vars

\* The selections made for the user with the user-preference strategy.
PreferenceCalls ==
    {i \in 1..Len(selections) :
        selections[i].strategy = "user_preference" /\ selections[i].has_user}

\* C30: a selection for the user returns the first service of the preferred
\* list that is among the available candidates, the least loaded available
\* candidate when there is none, and never a blacklisted service.
C30_PreferredNeverBlacklisted ==
    \A i \in PreferenceCalls :
        LET c == selections[i]
            preferred == FirstIn(preferences.preferred_service_ids, Range(c.services))
        IN /\ preferred # 0 => c.returned = preferred
           /\ preferred = 0 =>
                 \A id \in Range(c.services) :
                     services[c.returned].current_load * services[id].max_concurrent_tasks
                        <= services[id].current_load * services[c.returned].max_concurrent_tasks
           /\ c.returned \notin preferences.blacklisted_service_ids

\* Lemma: C30 without its blacklist clause.
PreferredElseLeastLoaded ==
    \A i \in PreferenceCalls :
        LET c == selections[i]
            preferred == FirstIn(preferences.preferred_service_ids, Range(c.services))
        IN /\ preferred # 0 => c.returned = preferred
           /\ preferred = 0 =>
                 \A id \in Range(c.services) :
                     services[c.returned].current_load * services[id].max_concurrent_tasks
                        <= services[id].current_load * services[c.returned].max_concurrent_tasks

(***************************************************************************)
(* The Celery execution path (tasks/workers.py, api/v1/workflows.py):      *)
(* workflow 1 is a chain of NumTasks tasks, each manual or executed on an  *)
(* instrument, workflow 2 has no task.  Each workflow is executed once;    *)
(* a scientist completes the tasks that await manual completion.           *)
(***************************************************************************)
\* complete_workflow.apply_async(..., countdown=30 | 60 | 120 | 300)
CompletionChecks == 4

InitCelery ==
    /\ workflows = [w \in {1, 2} |-> [status |-> "pending"]]
    /\ \E type \in [TaskIds -> {"manual", "instrument"}] :
          tasks = [t \in TaskIds |-> [workflow_id |-> 1, name |-> NameOf(t),
                                      status |-> "pending", deadline |-> "none",
                                      task_type |-> type[t]]]
    /\ deps = {}
    /\ services = InitServices
    /\ queue = <<>>
    /\ results = {}
    /\ execs = [e \in Executors |-> IdleExec]
    /\ levelsOut = <<>>
    /\ scheduleOut = <<>>
    /\ InitObjects

\* The tasks of the workflow, ordered by order_index.
ChainOf(tsk, wid) == SortedSeq({t \in DOMAIN tsk : tsk[t].workflow_id = wid})

\* The messages after the task has ended with the given state of the tasks:
\* execute_lab_task.delay(next_task.id) when the next task of the chain is pending.
TriggerNext(msgs, tsk, task_id) ==
    Let(ChainOf(tsk, tsk[task_id].workflow_id),
        LAMBDA all_tasks :
            IF \E i \in 1..(Len(all_tasks) - 1) :
                    all_tasks[i] = task_id /\ tsk[all_tasks[i + 1]].status = "pending"
            THEN msgs \cup {all_tasks[(CHOOSE i \in 1..(Len(all_tasks) - 1) :
                                          all_tasks[i] = task_id) + 1]}
            ELSE msgs)

\* The status complete_workflow and complete_task_manually give the workflow
\* once every task is completed or failed; the status it has otherwise.
CompletionStatus(tsk, wid, status) ==
    Let({tsk[t].status : t \in {u \in DOMAIN tsk : tsk[u].workflow_id = wid}},
        LAMBDA statuses :
            IF statuses \subseteq {"completed", "failed"}
            THEN IF "failed" \in statuses THEN "failed" ELSE "completed"
            ELSE status)

\* POST /api/workflows/{id}/execute-celery: 404 for an unknown workflow.
execute_workflow_via_celery(wid) ==
    /\ wid \in DOMAIN workflows
    /\ celery' = [celery EXCEPT !.execute_workflow = @ \cup {wid}]
    /\ UNCHANGED <<workflows, tasks, deps, services, queue, results, execs, levelsOut,
                   scheduleOut, round_robin_counters, selections, identity_map, matchOut,
                   batch, preferences, elapsed_time>>

\* The Celery task execute_workflow(workflow_id): the workflow becomes
\* running; the first task is queued and four completion checks scheduled,
\* or, without tasks, the workflow is completed.
execute_workflow(wid) ==
    /\ wid \in celery.execute_workflow
    /\ \E all_tasks \in {ChainOf(tasks, wid)} :
          IF Len(all_tasks) > 0
          THEN /\ workflows' = [workflows EXCEPT ![wid].status = "running"]
               /\ celery' = [celery EXCEPT
                     !.execute_workflow = @ \ {wid},
                     !.execute_lab_task = @ \cup {all_tasks[1]},
                     !.complete_workflow[wid] = @ + CompletionChecks]
          ELSE /\ workflows' = [workflows EXCEPT ![wid].status = "completed"]
               /\ celery' = [celery EXCEPT !.execute_workflow = @ \ {wid}]
    /\ UNCHANGED <<tasks, deps, services, queue, results, execs, levelsOut,
                   scheduleOut, round_robin_counters, selections, identity_map, matchOut,
                   batch, preferences, elapsed_time>>

\* execute_lab_task(task_id) up to the call of the instrument: a manual task
\* awaits manual completion and the Celery task returns; any other task
\* becomes running.  The status of the workflow is not read.
execute_lab_task(task_id) ==
    /\ task_id \in celery.execute_lab_task
    /\ IF tasks[task_id].task_type = "manual"
       THEN /\ tasks' = [tasks EXCEPT ![task_id].status = "awaiting_manual_completion"]
            /\ celery' = [celery EXCEPT !.execute_lab_task = @ \ {task_id}]
       ELSE /\ tasks' = [tasks EXCEPT ![task_id].status = "running"]
            /\ celery' = [celery EXCEPT !.execute_lab_task = @ \ {task_id},
                                        !.busy = @ \cup {task_id}]
    /\ UNCHANGED <<workflows, deps, services, queue, results, execs, levelsOut,
                   scheduleOut, round_robin_counters, selections, identity_map, matchOut,
                   batch, preferences, elapsed_time>>

\* execute_lab_task(task_id) from the answer of the instrument: completed
\* (a Result is stored and the next pending task of the chain is queued) or
\* failed (a failure reported, a timeout or an exception).
execute_instrument_task(task_id, ok) ==
    /\ task_id \in celery.busy
    /\ IF ok
       THEN \E tsk \in {[tasks EXCEPT ![task_id].status = "completed"]} :
               /\ tasks' = tsk
               /\ results' = results \cup {task_id}
               /\ celery' = [celery EXCEPT
                     !.busy = @ \ {task_id},
                     !.execute_lab_task = TriggerNext(@, tsk, task_id)]
       ELSE /\ tasks' = [tasks EXCEPT ![task_id].status = "failed"]
            /\ celery' = [celery EXCEPT !.busy = @ \ {task_id}]
            /\ UNCHANGED results
    /\ UNCHANGED <<workflows, deps, services, queue, execs, levelsOut,
                   scheduleOut, round_robin_counters, selections, identity_map, matchOut,
                   batch, preferences, elapsed_time>>

\* The Celery task complete_workflow(workflow_id), one of the scheduled checks.
complete_workflow(wid) ==
    /\ celery.complete_workflow[wid] > 0
    /\ celery' = [celery EXCEPT !.complete_workflow[wid] = @ - 1]
    /\ workflows' = [workflows EXCEPT
          ![wid].status = CompletionStatus(tasks, wid, @)]
    /\ UNCHANGED <<tasks, deps, services, queue, results, execs, levelsOut,
                   scheduleOut, round_robin_counters, selections, identity_map, matchOut,
                   batch, preferences, elapsed_time>>

\* POST /api/workflows/{id}/tasks/{task_id}/complete-manual
complete_task_manually(wid, task_id) ==
    /\ wid \in DOMAIN workflows
    /\ task_id \in DOMAIN tasks /\ tasks[task_id].workflow_id = wid
    /\ tasks[task_id].status \in {"pending", "awaiting_manual_completion", "failed"}
    /\ \E tsk \in {[tasks EXCEPT ![task_id].status = "completed"]} :
          /\ tasks' = tsk
          /\ celery' = [celery EXCEPT !.execute_lab_task = TriggerNext(@, tsk, task_id)]
          /\ workflows' = [workflows EXCEPT
                ![wid].status = CompletionStatus(tsk, wid, @)]
    /\ UNCHANGED <<deps, services, queue, results, execs, levelsOut,
                   scheduleOut, round_robin_counters, selections, identity_map, matchOut,
                   batch, preferences, elapsed_time>>

\* The steps of the Celery workers.
CeleryWorker ==
    \/ \E w \in DOMAIN workflows : execute_workflow(w)
    \/ \E t \in TaskIds : execute_lab_task(t)
    \/ \E t \in TaskIds, ok \in BOOLEAN : execute_instrument_task(t, ok)
    \/ \E w \in DOMAIN workflows : complete_workflow(w)

NextCelery ==
    \/ \E w \in DOMAIN workflows :
          workflows[w].status = "pending" /\ execute_workflow_via_celery(w)
    \/ CeleryWorker
    \/ \E t \in TaskIds :
          /\ tasks[t].status = "awaiting_manual_completion"
          /\ complete_task_manually(tasks[t].workflow_id, t)

SpecCelery == InitCelery /\ [][NextCelery]_vars

\* The workers take every message and every scheduled check, and every call
\* of an instrument ends (with an answer, a timeout or an exception).
SpecCeleryFair == SpecCelery /\ WF_vars(CeleryWorker)

\* A task of the running workflow has failed.
FailedWhileRunning(w) ==
    /\ workflows[w].status = "running"
    /\ \E t \in TaskIds : tasks[t].workflow_id = w /\ tasks[t].status = "failed"

\* C31: when a task of a running workflow fails, the workflow eventually
\* becomes failed, and no task after the failed one is executed: the tasks
\* after it stay pending.
C31_FailureFailsWorkflow ==
    /\ \A w \in {1, 2} : FailedWhileRunning(w) ~> (workflows[w].status = "failed")
    /\ [](\A t, u \in TaskIds :
             (tasks[t].workflow_id = tasks[u].workflow_id /\ t < u
              /\ tasks[t].status = "failed") => tasks[u].status = "pending")

\* Lemma: the chain stops at a failed task, and the workflow becomes failed
\* when the failed task is the last of the chain and a check is still to come.
ChainStopsAtFailure ==
    /\ [](\A t, u \in TaskIds :
             (tasks[t].workflow_id = tasks[u].workflow_id /\ t < u
              /\ tasks[t].status = "failed") => tasks[u].status = "pending")
    /\ \A w \in {1, 2} :
          (FailedWhileRunning(w) /\ tasks[NumTasks].status = "failed"
           /\ celery.complete_workflow[w] > 0) ~> (workflows[w].status = "failed")

(***************************************************************************)
(* The Celery execution path with the pause, stop and resume endpoints.    *)
(***************************************************************************)
NextCeleryControl ==
    \/ NextCelery
    \/ \E w \in DOMAIN workflows : pause_workflow(w)
    \/ \E w \in DOMAIN workflows : stop_workflow(w)
    \/ \E w \in DOMAIN workflows : resume_workflow(w)

SpecCeleryControl == InitCelery /\ [][NextCeleryControl]_vars

\* The step starts a task of workflow w: execute_lab_task takes its message.
StartsTaskOf(w) ==
    \E t \in TaskIds :
        /\ tasks[t].workflow_id = w
        /\ tasks'[t].status # tasks[t].status
        /\ tasks'[t].status \in {"running", "awaiting_manual_completion"}

\* C32: while a workflow is paused or stopped no task of it is started, and
\* its status changes only by a resume (paused to running) or a stop
\* (paused to stopped): it is never set to completed or failed.
C32_SuspendedWhilePausedOrStopped ==
    [][\A w \in DOMAIN workflows :
          workflows[w].status \in {"paused", "stopped"} =>
             /\ ~StartsTaskOf(w)
             /\ \/ workflows'[w].status = workflows[w].status
                \/ workflows[w].status = "paused"
                   /\ workflows'[w].status \in {"running", "stopped"}]_vars

\* Lemma: a stopped workflow is never running again, and a paused one is
\* running again only when it is resumed.
StoppedNeverRunningAgain ==
    [][\A w \in DOMAIN workflows :
          /\ workflows[w].status = "stopped" => workflows'[w].status # "running"
          /\ (workflows[w].status = "paused" /\ workflows'[w].status = "running")
                => resume_workflow(w)]_vars

(***************************************************************************)
(* Assignment of services to queue entries: the tasks of workflow 1 are    *)
(* scheduled, rebalanced and executed with the fallback recovery; service  *)
(* 1 offers a part only of what some task requires, the other services     *)
(* offer all that any task requires.                                       *)
(***************************************************************************)
InitAssign ==
    /\ workflows = [w \in {1} |-> [status |-> "pending"]]
    /\ tasks = [t \in TaskIds |-> [workflow_id |-> 1, name |-> NameOf(t),
                                   status |-> "pending", deadline |-> "none"]]
    /\ deps = {}
    /\ \E caps \in {{"balance", "pipette", "hplc"}, {"balance"}} :
          services = [id \in ServiceIds |->
              [InitServices[id] EXCEPT !.capabilities =
                  IF id = 1 THEN caps
                  ELSE {"balance", "pipette", "hplc", "uv_detector"}]]
    /\ queue = <<>>
    /\ results = {}
    /\ execs = [e \in Executors |-> IdleExec]
    /\ levelsOut = <<>>
    /\ scheduleOut = <<>>
    /\ InitObjects

NextAssign ==
    \/ ScheduleWorkflow(1, "priority") /\ Len(queue') <= QueueCap
    \/ RebalanceQueue
    \/ \E answer \in {"ok", "none"} : HealthCheck(1, answer)
    \/ ExecBegin(1, 1, "sequential", "fallback")
    \/ \E t \in TaskIds : TaskStart(1, t)
    \/ \E t \in TaskIds, ok \in BOOLEAN : TaskResult(1, t, ok)
    \/ \E t \in TaskIds, ok \in BOOLEAN : TaskAltResult(1, t, ok)
    \/ GroupDone(1)

SpecAssign == InitAssign /\ [][NextAssign]_vars

\* The service offers every capability the task of the entry requires.
Covers(id, e) ==
    build_task_requirements(tasks[e.task_id]).required \subseteq services[id].capabilities

C34_FallbackOnceOnAnotherService ==
    [][\A t \in TaskIds :
          /\ (execs[1].co[t] = "called" /\ execs'[1].co[t] = "altcalled")
                => /\ execs'[1].sv[t] # execs[1].sv[t]
                   /\ execs'[1].sv[t] = execs'[1].recovery[t].alternative_service_id
          /\ execs[1].co[t] = "altcalled"
                => execs'[1].co[t] \in {"altcalled", "ok", "fail"}
          /\ t \in execs[1].finished
                => execs'[1].co[t] \notin {"ready", "called", "altcalled"}
          /\ (execs[1].co[t] = "altcalled" /\ execs'[1].co[t] = "fail")
                => /\ tasks'[t].status = "failed"
                   /\ queue'[execs[1].ent[t]].status = "failed"]_vars

\* C34 witness: the attempt of a task on its alternate service has failed too.
C34_Witness ==
    \E t \in TaskIds :
        /\ execs[1].co[t] = "fail"
        /\ execs[1].recovery[t].type = "fallback"
        /\ execs[1].recovery[t].alternative_service_id = execs[1].sv[t]
        /\ queue[execs[1].ent[t]].assigned_service_id = execs[1].sv[t]
        /\ queue[execs[1].ent[t]].retry_count = 1

\* Service a is a strictly better choice than service b for the task under
\* the current conditions: b cannot take the task (it is gone, not available
\* or not compatible), or a matches the task with a higher score, or a
\* carries less load.
StrictlyBetter(a, b, task) ==
    \/ b \notin get_available_services(services)
    \/ Let(build_task_requirements(task), LAMBDA req :
       Let(calculate_match_score(services[a].capabilities, req), LAMBDA ma :
       Let(calculate_match_score(services[b].capabilities, req), LAMBDA mb :
           \/ mb.quality \in {"poor", "incompatible"}
           \/ ma.score > mb.score
           \/ services[a].current_load * services[b].max_concurrent_tasks
                 < services[b].current_load * services[a].max_concurrent_tasks)))

\* C35: RebalanceQueue moves an entry to another service only if the entry
\* is pending and the other service is strictly better; an entry whose
\* service is the best or tied with the best keeps it, and the entries that
\* are not pending are left as they are.
C35_ReassignOnlyToStrictlyBetter ==
    [][RebalanceQueue =>
          \A i \in 1..Len(queue) :
              /\ queue[i].status # "pending" => queue'[i] = queue[i]
              /\ queue'[i].assigned_service_id # queue[i].assigned_service_id
                    => StrictlyBetter(queue'[i].assigned_service_id,
                                      queue[i].assigned_service_id,
                                      tasks[queue[i].task_id])]_vars

\* Lemma: RebalanceQueue leaves the entries that are not pending as they are,
\* and moves a pending entry only to an available service that is not
\* worse than the one it had.
RebalanceNeverToWorse ==
    [][RebalanceQueue =>
          \A i \in 1..Len(queue) :
              /\ queue[i].status # "pending" => queue'[i] = queue[i]
              /\ queue'[i].assigned_service_id # queue[i].assigned_service_id
                    => /\ queue'[i].assigned_service_id \in get_available_services(services)
                       /\ ~StrictlyBetter(queue[i].assigned_service_id,
                                          queue'[i].assigned_service_id,
                                          tasks[queue[i].task_id])]_vars

(***************************************************************************)
(* The monitoring of a service call (_monitor_task_completion): the engine *)
(* polls the results endpoint of the service and counts check_interval     *)
(* into elapsed_time after every poll without a verdict, until max_wait_time*)
(* is reached.  elapsed_time is counted in polls, max_wait_time is MaxPolls.*)
(***************************************************************************)
MaxPolls == 2    \* max_wait_time / check_interval

\* A monitoring that does not count the time it has waited.
MonitorElapsedNotCounted(elapsed) == elapsed

\* elapsed_time += check_interval
MonitorElapsed(elapsed) == elapsed + 1

\* Executor 1 is waiting for the service of task t; which call it monitors.
Monitoring(t) == execs[1].pc = "running" /\ execs[1].co[t] \in {"called", "altcalled"}
MonitorCall(t) == IF execs[1].co[t] = "called" THEN 1 ELSE 2

\* A poll without a verdict: the task is still running on the service, the
\* results endpoint answers with an error, or the request raises.
MonitorWait(t) ==
    /\ Monitoring(t)
    /\ elapsed_time[t][MonitorCall(t)] < MaxPolls
    /\ elapsed_time' = [elapsed_time EXCEPT ![t][MonitorCall(t)] = MonitorElapsed(@)]
    /\ UNCHANGED <<workflows, tasks, deps, services, queue, results, execs, levelsOut,
                   scheduleOut, round_robin_counters, selections, identity_map, matchOut,
                   batch, preferences, celery>>

\* The service gives a verdict: the request is refused or raises, or a poll
\* within max_wait_time finds the task completed or failed.
MonitorAnswer(t, ok) ==
    /\ Monitoring(t)
    /\ elapsed_time[t][MonitorCall(t)] < MaxPolls
    /\ TaskResult(1, t, ok) \/ TaskAltResult(1, t, ok)

\* max_wait_time is reached: the call returns success False, "Task timeout".
MonitorTimeout(t) ==
    /\ Monitoring(t)
    /\ elapsed_time[t][MonitorCall(t)] >= MaxPolls
    /\ TaskResult(1, t, FALSE) \/ TaskAltResult(1, t, FALSE)

\* The steps the engine takes by itself.
EngineStep ==
    \/ \E t \in TaskIds : TaskStart(1, t)
    \/ \E t \in TaskIds : MonitorWait(t)
    \/ \E t \in TaskIds : MonitorTimeout(t)
    \/ GroupDone(1)

\* Workflow 1 has two tasks, with services that offer all they require.
InitMonitor ==
    /\ workflows = [w \in {1, 2} |-> [status |-> "pending"]]
    /\ tasks = [t \in TaskIds |-> [workflow_id |-> IF t <= 2 THEN 1 ELSE 2,
                                   name |-> NameOf(t),
                                   status |-> "pending", deadline |-> "none"]]
    /\ deps = {}
    /\ services = [id \in ServiceIds |->
          [InitServices[id] EXCEPT !.capabilities =
              {"balance", "pipette", "hplc", "uv_detector"}]]
    /\ queue = <<>>
    /\ results = {}
    /\ execs = [e \in Executors |-> IdleExec]
    /\ levelsOut = <<>>
    /\ scheduleOut = <<>>
    /\ InitObjects

NextMonitor ==
    \/ \E m \in {"sequential", "parallel"}, r \in RecoveryStrategy : ExecBegin(1, 1, m, r)
    \/ EngineStep
    \/ \E t \in TaskIds, ok \in BOOLEAN : MonitorAnswer(t, ok)

SpecMonitor == InitMonitor /\ [][NextMonitor]_vars

\* The engine goes on whenever it can; no service is bound to give a verdict.
SpecMonitorFair == SpecMonitor /\ WF_vars(EngineStep)

\* C36: every queue entry that is running is eventually completed or failed,
\* also when the service never gives a verdict, and no entry is running
\* when ExecuteWorkflow has returned.
C36_EveryExecutionTerminates ==
    /\ \A i \in 1..MaxQueue :
          (i <= Len(queue) /\ queue[i].status = "running")
             ~> (i <= Len(queue) /\ queue[i].status \in {"completed", "failed"})
    /\ [](execs[1].pc = "done" => \A i \in 1..Len(queue) : queue[i].status # "running")

\* C36 witness: ExecuteWorkflow has returned after the monitoring of a task
\* reached max_wait_time on the assigned service and on the alternate one.
C36_Witness ==
    /\ execs[1].pc = "done"
    /\ \E t \in execs[1].failed :
          /\ elapsed_time[t] = <<MaxPolls, MaxPolls>>
          /\ execs[1].recovery[t].type = "fallback"
          /\ queue[execs[1].ent[t]].status = "failed"

\* The entries that are running on the service.
RunningOn(id) ==
    {i \in 1..Len(queue) : queue[i].status = "running" /\ queue[i].assigned_service_id = id}

\* C37: the current_load of every service is the number of queue entries
\* that are running on it.
C37_LoadCountsRunningEntries ==
    \A id \in DOMAIN services : services[id].current_load = Cardinality(RunningOn(id))

\* C38: every queue entry that is completed has a stored Result of its
\* task, also when the task completed on the alternate service of a
\* fallback.
C38_CompletedEntryHasResult ==
    \A i \in 1..Len(queue) :
        queue[i].status = "completed" => queue[i].task_id \in results

\* Lemma: an entry that completes on the service first assigned to it has
\* a stored Result from that step on.
CompletedOnFirstServiceHasResult ==
    [][\A t \in TaskIds :
          (/\ execs[1].co[t] = "called"
           /\ queue'[execs[1].ent[t]].status = "completed")
          => t \in results']_vars

(***************************************************************************)
(* The status of the services under load updates and health checks: the    *)
(* services are as register_service leaves them, offline with load 0, and  *)
(* the load endpoint and the health checks act on them.                    *)
(***************************************************************************)
InitStatus ==
    /\ workflows = [w \in {1, 2} |-> [status |-> "pending"]]
    /\ tasks = [t \in TaskIds |-> [workflow_id |-> IF t < NumTasks THEN 1 ELSE 2,
                                   name |-> NameOf(t),
                                   status |-> "pending", deadline |-> "none"]]
    /\ deps = {}
    /\ services = [i \in ServiceIds |-> [InitServices[i] EXCEPT !.status = "offline"]]
    /\ queue = <<>>
    /\ results = {}
    /\ execs = [e \in Executors |-> IdleExec]
    /\ levelsOut = <<>>
    /\ scheduleOut = <<>>
    /\ InitObjects

\* A call of the load endpoint.
UpdateLoadCall ==
    \E id \in ServiceIds, load_change \in {-1, 1} :
        /\ services[id].current_load + load_change <= MaxLoad
        /\ UpdateLoad(id, load_change)

\* A health check of one service, alone or as one of health_check_services.
HealthCheckCall ==
    \E id \in ServiceIds, answer \in {"ok", "status", "none"} : HealthCheck(id, answer)

NextStatus ==
    \/ UpdateLoadCall
    \/ HealthCheckCall

SpecStatus == InitStatus /\ [][NextStatus]_vars

\* C39: a load update changes the status of a service only between online
\* and busy; a service that is offline, in error or in maintenance keeps
\* its status under load updates and becomes online only by a health check
\* that succeeds.
C39_UpdateLoadOnlyBetweenOnlineAndBusy ==
    /\ [][UpdateLoadCall =>
            \A id \in ServiceIds :
                services'[id].status # services[id].status
                    => {services[id].status, services'[id].status} = {"online", "busy"}]_vars
    /\ [][\A id \in ServiceIds :
            (/\ services[id].status \in {"offline", "error", "maintenance"}
             /\ services'[id].status = "online")
            => HealthCheck(id, "ok")]_vars

\* Lemma: a load update that leaves the load under the capacity changes no
\* status but busy, which becomes online.
UpdateLoadUnderCapacityKeepsStatus ==
    [][UpdateLoadCall =>
          \A id \in ServiceIds :
              services'[id].current_load < services'[id].max_concurrent_tasks
                  => services'[id].status =
                        IF services[id].status = "busy" THEN "online"
                        ELSE services[id].status]_vars

\* C40: a health check changes the status of a service only among online,
\* offline and error; a service in maintenance, or busy with its load at
\* capacity, keeps its status under health checks.
C40_HealthCheckKeepsMaintenanceAndBusy ==
    [][HealthCheckCall =>
          \A id \in ServiceIds :
              /\ services'[id].status # services[id].status
                    => {services[id].status, services'[id].status}
                          \subseteq {"online", "offline", "error"}
              /\ (\/ services[id].status = "maintenance"
                  \/ /\ services[id].status = "busy"
                     /\ services[id].current_load >= services[id].max_concurrent_tasks)
                    => services'[id].status = services[id].status]_vars

\* Lemma: a health check leaves every load as it is, and leaves the
\* checked service online, in error or offline according to the answer.
HealthCheckSetsStatusFromAnswer ==
    [][\A id \in ServiceIds, answer \in {"ok", "status", "none"} :
          HealthCheck(id, answer) =>
              /\ \A j \in ServiceIds :
                    services'[j].current_load = services[j].current_load
              /\ services'[id].status =
                    CASE answer = "ok" -> "online"
                      [] answer = "status" -> "error"
                      [] OTHER -> "offline"]_vars

=============================================================================
